---- MODULE Spec2Model ----
(***************************************************************************)
(* Model of the task dispatch and streaming-output aggregation engine of   *)
(* zero_server: DataStore (data_models.py), MongoDBManager                 *)
(* (mongodb_manager.py), MessageHandler (message_handler.py), ZMQServer    *)
(* (zmq_server.py) and the dispatch endpoint of FlaskAPI (flask_api.py).   *)
(*                                                                         *)
(* Strings are sequences of code points, byte strings sequences of byte    *)
(* values.  Python's None is the value None.  A collection of the          *)
(* document store is the set (or, per task, the sequence) of its documents.*)
(* Every handler is one atomic action: the inbound loop runs handlers one  *)
(* at a time.  The opaque pass-through fields of a task (mode, payload)    *)
(* are not interpreted by any operation and are left out of the records.   *)
(***************************************************************************)
EXTENDS Integers, Sequences, FiniteSets, TLC

\* ------------------------------------------------------------- bounds
\* number of tasks the dispatcher may create
MaxTasks == 1
\* number of output messages handled per task id
MaxChunks == 2
\* number of completed messages handled per task id
MaxCompleted == 2
\* wall-clock readings and client timestamps range over 1..MaxTime
MaxTime == 2
\* number of store writes that raise while the store is reachable
MaxFaults == 1

\* ------------------------------------------------------------- values
None == -1

Times == 1..MaxTime
\* a client-supplied "ts" string that datetime.fromisoformat rejects
BadTs == 0
TaskIds == 1..MaxTasks
\* the task ids a message can carry: a dispatched id, or no "task" field
MsgTasks(known) == known \cup {None}
ExitCodes == {0, 1, None}
ChunkTexts == {<<97>>, <<98>>}
\* an absent or empty string field
NoStr == <<>>
MsgIds == {<<109>>, NoStr}
\* the msg_id generated by uuid.uuid4() when the message carries none
GenMsgId == <<117>>

\* connection identities (byte strings): "c1", and a binary identity that
\* is not valid UTF-8
IdA == <<99, 49>>
IdB == <<0, 128>>
Identities == {IdA, IdB}
\* external client identifiers ("w1")
ClientIds == {<<119, 49>>}
Hostnames == {<<104>>, NoStr}

\* ----------------------------------------------------- identity codec
HexDigit(n) == IF n < 10 THEN 48 + n ELSE 87 + n

RECURSIVE BytesHex(_)
BytesHex(b) ==
  IF b = <<>> THEN <<>>
  ELSE <<HexDigit(Head(b) \div 16), HexDigit(Head(b) % 16)>> \o BytesHex(Tail(b))

\* bytes.decode('utf-8') (strict) on one- and two-byte encodings; the
\* result is <<FALSE>> when the input is not valid UTF-8.  Lead bytes of
\* three- and four-byte encodings are outside the byte values used here.
RECURSIVE Utf8Decode(_)
Utf8Decode(b) ==
  IF b = <<>> THEN <<TRUE, <<>>>>
  ELSE IF Head(b) < 128 THEN
    LET r == Utf8Decode(Tail(b))
    IN  IF r[1] THEN <<TRUE, <<Head(b)>> \o r[2]>> ELSE <<FALSE, <<>>>>
  ELSE IF Head(b) >= 194 /\ Head(b) <= 223 /\ Len(b) >= 2
          /\ b[2] >= 128 /\ b[2] <= 191 THEN
    LET r == Utf8Decode(Tail(Tail(b)))
    IN  IF r[1] THEN <<TRUE, <<(Head(b) - 192) * 64 + (b[2] - 128)>> \o r[2]>>
        ELSE <<FALSE, <<>>>>
  ELSE <<FALSE, <<>>>>

\* str.isalnum() of one character, for the code points below U+0100
IsAlnum(c) ==
  \/ c >= 48 /\ c <= 57
  \/ c >= 65 /\ c <= 90
  \/ c >= 97 /\ c <= 122
  \/ c \in {170, 178, 179, 181, 185, 186, 188, 189, 190}
  \/ c >= 192 /\ c <= 255 /\ c \notin {215, 247}

SafeChar(c) == IF IsAlnum(c) \/ c = 45 \/ c = 95 THEN c ELSE 95

Take(s, n) == IF Len(s) <= n THEN s ELSE SubSeq(s, 1, n)

MaxIdentityStrLen == 120

identity_to_str(b) ==
  LET d == Utf8Decode(b)
      s == IF d[1] THEN d[2] ELSE BytesHex(b)
  IN  Take([i \in 1..Len(s) |-> SafeChar(s[i])], MaxIdentityStrLen)

\* -------------------------------------------------------------- state
VARIABLES
  connected,   \* MongoDBManager.connected
  clients,     \* DataStore.clients: identity -> info
  dbClients,   \* clients collection: client_id -> document
  tasks,       \* DataStore.tasks: task id -> record
  taskOrder,   \* insertion order of DataStore.tasks (an OrderedDict)
  dbTasks,     \* tasks collection: task id -> document
  buffer,      \* MongoDBManager._task_output_buffer: task id -> entry
  logs,        \* client_logs collection, output_stream documents per task id
  events,      \* client_logs collection, event documents
  aggregated,  \* aggregated_task_output collection
  fileLog,     \* client_<id>.log files: client string -> lines
  faults,      \* number of store writes that have raised so far
  out,         \* the frames the last operation sent on the ROUTER socket
  hist,        \* per task id, the output and completed messages handled so
               \* far and what each did to the buffer (history, not program state)
  running,     \* the thread of ZMQServer.handle_incoming is alive
  recv,        \* the frames of the message the inbound loop handled in the
               \* latest step, <<>> when that step was not the loop's
  pc,          \* per thread, the statement it executes next
  locks,       \* DataStore.tasks_lock and clients_lock: the holder, or "free"
  local,       \* per thread, its local variables
  tail,        \* the generator of FlaskAPI.api_task_live_stream
  apiKeys,     \* FirebaseAuthManager.api_keys_collection
  req,         \* per HTTP request of create_or_get_api_key: its position,
               \* the key it generated and what it returned
  arg,         \* the argument of the latest call of a utility function
  ret          \* what the latest call of a function returned

vars == <<connected, clients, dbClients, tasks, taskOrder, dbTasks, buffer,
          logs, events, aggregated, fileLog, faults, out, hist,
          running, recv, pc, locks, local, tail, apiKeys, req, arg, ret>>

clientVars == <<clients, dbClients>>

\* the state of the threads and of the live tail, which the message-level
\* operations below leave alone
auxVars == <<running, recv, pc, locks, local, tail, apiKeys, req, arg, ret>>

TaskKeys == TaskIds \cup {None}

\* the threads main() starts: the inbound loop and the HTTP server's
\* request threads
Threads == {"loop", "http"}
Locks == {"tasks", "clients"}
\* a thread outside any operation: no task in hand, nothing read
NoLocals == [task |-> None, status |-> "", completed_at |-> None, exit_code |-> None,
             sequence |-> None, identity |-> NoStr]
\* no live-tail request open
NoTail == [state |-> "closed", task |-> None, last_sequence |-> 0, events |-> <<>>]
ClientStrs == {identity_to_str(i) : i \in Identities}
\* the HTTP requests that ask for an API key, and one that has not started
Requests == {1, 2}
NoRequest == [pc |-> "idle", key |-> None, result |-> None]
\* no utility function called yet
NoCall == [fn |-> "", value |-> <<>>]

Init ==
  /\ connected \in BOOLEAN
  /\ clients = <<>>
  /\ dbClients = <<>>
  /\ tasks = <<>>
  /\ taskOrder = <<>>
  /\ dbTasks = <<>>
  /\ buffer = <<>>
  /\ logs = [t \in TaskKeys |-> <<>>]
  /\ events = {}
  /\ aggregated = {}
  /\ fileLog = [c \in ClientStrs |-> <<>>]
  /\ faults = 0
  /\ out = <<>>
  /\ hist = [t \in TaskKeys |-> <<>>]
  /\ running = TRUE
  /\ recv = <<>>
  /\ pc = [th \in Threads |-> "idle"]
  /\ locks = [l \in Locks |-> "free"]
  /\ local = [th \in Threads |-> NoLocals]
  /\ tail = NoTail
  /\ apiKeys = {}
  /\ req = [r \in Requests |-> NoRequest]
  /\ arg = NoCall
  /\ ret = None

\* ------------------------------------------------------------ helpers
\* the function f with key k set to v (a dict assignment f[k] = v)
Put(f, k, v) == [x \in DOMAIN f \cup {k} |-> IF x = k THEN v ELSE f[x]]
\* the function f without key k (del f[k])
Del(f, k) == [x \in DOMAIN f \ {k} |-> f[x]]

\* a write that raises: the store is reachable and the write is refused.
\* Fault(w) counts the refused writes among the attempted ones.
Fault(attempted, ok) == IF attempted /\ ~ok THEN 1 ELSE 0
Raises(n) == /\ faults + n <= MaxFaults
             /\ faults' = faults + n

Count(h, e) == Cardinality({i \in 1..Len(h) : h[i].ev = e})

Frame(to, type, kind, task, msgid, reason) ==
  [to |-> to, type |-> type, kind |-> kind, task |-> task, msg_id |-> msgid,
   reason |-> reason]

\* MessageHandler._send_response: one frame to the originating identity
Ack(identity, kind, task, msgid) ==
  <<Frame(identity, "ack", kind, task, msgid, "")>>

Event(client_id, type, task, hostname, exit_code, status) ==
  [client_id |-> client_id, event_type |-> type, task_id |-> task,
   hostname |-> hostname, exit_code |-> exit_code, status |-> status]

\* MongoDBManager.log_client_event: the events collection afterwards
log_client_event(conn, ok, doc) ==
  IF conn /\ ok THEN events \cup {doc} ELSE events

Terminal == {"completed", "failed"}

\* ------------------------------------------------ output aggregation
\* sorted(chunks, key=sequence): a stable sort, by insertion
RECURSIVE InsertBySeq(_, _)
InsertBySeq(s, c) ==
  IF s = <<>> THEN <<c>>
  ELSE IF s[Len(s)].sequence <= c.sequence THEN Append(s, c)
  ELSE Append(InsertBySeq(SubSeq(s, 1, Len(s) - 1), c), s[Len(s)])

\* sorted(chunks, key=timestamp): the chunks in order of their timestamps
RECURSIVE InsertByTime(_, _)
InsertByTime(s, c) ==
  IF s = <<>> THEN <<c>>
  ELSE IF s[Len(s)].timestamp <= c.timestamp THEN Append(s, c)
  ELSE Append(InsertByTime(SubSeq(s, 1, Len(s) - 1), c), s[Len(s)])

RECURSIVE SortByTime(_)
SortByTime(s) ==
  IF s = <<>> THEN <<>>
  ELSE InsertByTime(SortByTime(SubSeq(s, 1, Len(s) - 1)), s[Len(s)])

RECURSIVE SortBySeq(_)
SortBySeq(s) ==
  IF s = <<>> THEN <<>>
  ELSE InsertBySeq(SortBySeq(SubSeq(s, 1, Len(s) - 1)), s[Len(s)])

\* ''.join(chunk['output'] for chunk in s)
RECURSIVE Join(_)
Join(s) == IF s = <<>> THEN <<>> ELSE Head(s).output \o Join(Tail(s))

AggregatedDoc(task_id, entry, status, exit_code, now) ==
  LET sorted_chunks == SortBySeq(entry.chunks)
      combined_output == Join(sorted_chunks)
  IN  [task_id |-> task_id,
       client_id |-> entry.client_id,
       combined_output |-> combined_output,
       total_chunks |-> Len(sorted_chunks),
       first_chunk_time |-> entry.first_chunk_time,
       completed_at |-> now,
       exit_code |-> exit_code,
       status |-> status,
       output_size |-> Len(combined_output)]

\* insert_one on aggregated_task_output, whose index on task_id is unique:
\* the insert raises DuplicateKeyError when the task already has a document
AggInsertOk(task_id, ok) ==
  ok /\ \A d \in aggregated : d.task_id # task_id

\* MongoDBManager._create_aggregated_output: <<buffer, aggregated, outcome>>
create_aggregated_output(task_id, status, exit_code, now, ok) ==
  IF task_id \notin DOMAIN buffer THEN <<buffer, aggregated, "nobuffer">>
  ELSE IF AggInsertOk(task_id, ok)
  THEN <<Del(buffer, task_id),
         aggregated \cup {AggregatedDoc(task_id, buffer[task_id], status, exit_code, now)},
         "inserted">>
  ELSE <<buffer, aggregated, "failed">>

\* ------------------------------------------------------ task registry
TaskRecord(task_id, target, now) ==
  [id |-> task_id, target |-> target, status |-> "queued", created_at |-> now,
   started_at |-> None, completed_at |-> None, exit_code |-> None]

EmptyEntry(client_id, first) ==
  [chunks |-> <<>>, sequence |-> 0, client_id |-> client_id,
   first_chunk_time |-> first]

\* an update of the cached record that is made only when the store is
\* reachable
update_if_stored(task_id, upd) ==
  IF connected /\ task_id \in DOMAIN tasks
  THEN [tasks EXCEPT ![task_id] =
          [f \in DOMAIN @ |-> IF f \in DOMAIN upd THEN upd[f] ELSE @[f]]]
  ELSE tasks

\* DataStore.update_task_status, in-memory part: t[key] = value for the
\* status and every keyword argument, when the task is cached
MemUpdate(task_id, upd) ==
  IF task_id \in DOMAIN tasks
  THEN [tasks EXCEPT ![task_id] =
          [f \in DOMAIN @ |-> IF f \in DOMAIN upd THEN upd[f] ELSE @[f]]]
  ELSE tasks

\* tasks_collection.update_one({'id': task_id}, {'$set': update_doc})
DbUpdate(task_id, upd) ==
  IF task_id \in DOMAIN dbTasks
  THEN [dbTasks EXCEPT ![task_id] =
          [f \in DOMAIN @ |-> IF f \in DOMAIN upd THEN upd[f] ELSE @[f]]]
  ELSE dbTasks

\* ---------------------------------------------------- client registry
\* index of the first cached client whose identity_str is client_id
\* (the scan of get_client_by_id over the OrderedDict), 0 when none
FirstWithId(client_id) ==
  LET hits == {i \in 1..Len(clients) : clients[i].identity_str = client_id}
  IN  IF hits = {} THEN 0 ELSE CHOOSE i \in hits : \A j \in hits : i <= j

\* index of the cached entry keyed by identity, 0 when none
IndexOf(identity) ==
  LET hits == {i \in 1..Len(clients) : clients[i].identity = identity}
  IN  IF hits = {} THEN 0 ELSE CHOOSE i \in hits : TRUE

ClientEntry(identity, client_id, hostname, now) ==
  [identity |-> identity, identity_str |-> client_id, hostname |-> hostname,
   last_seen |-> now]

\* DataStore.add_or_update_client: is_new = entry is None, for the entry
\* self.clients.get(identity)
is_new(identity) == IndexOf(identity) = 0

\* DataStore.add_or_update_client, in-memory part
add_or_update_client(identity, client_id, hostname, now) ==
  LET i == IndexOf(identity)
  IN  IF i = 0
      THEN Append(clients, ClientEntry(identity, client_id, hostname, now))
      ELSE [clients EXCEPT ![i].last_seen = now,
                           ![i].hostname = IF hostname # NoStr THEN hostname ELSE @]

\* MongoDBManager.upsert_client: update_one(..., {'$set': doc}, upsert=True)
upsert_client(client_id, identity, hostname, now, ok) ==
  IF connected /\ ok
  THEN Put(dbClients, client_id,
           [client_id |-> client_id, identity_hex |-> BytesHex(identity),
            hostname |-> hostname, last_seen |-> now])
  ELSE dbClients

\* a hello handler that registers the client whatever it presents
trusting_hello(identity, client_id, key_present, key_valid, hostname, now, okc, oke) ==
  /\ Raises(Fault(connected, okc) + Fault(connected, oke))
  /\ clients' = add_or_update_client(identity, client_id, hostname, now)
  /\ dbClients' = upsert_client(client_id, identity, hostname, now, okc)
  /\ events' = log_client_event(connected, oke,
                 Event(client_id, "authenticated", None, hostname, None, ""))
  /\ out' = Ack(identity, "hello", None, NoStr)
  /\ UNCHANGED <<connected, tasks, taskOrder, dbTasks, buffer, logs, aggregated,
                 fileLog, hist>>

\* MessageHandler.handle_hello
Hello(identity, client_id, key_present, key_valid, hostname, now, okc, oke) ==
  /\ IF client_id = NoStr \/ ~key_present
     THEN /\ out' = <<Frame(identity, "reject", "", None, NoStr,
                            "Missing client_id or api_key")>>
          /\ UNCHANGED <<clients, dbClients, events, faults>>
     ELSE IF ~key_valid
     THEN /\ out' = <<Frame(identity, "reject", "", None, NoStr, "Invalid API key")>>
          /\ UNCHANGED <<clients, dbClients, events, faults>>
     ELSE /\ Raises(Fault(connected, okc) + Fault(connected, oke))
          /\ clients' = add_or_update_client(identity, client_id, hostname, now)
          /\ dbClients' = upsert_client(client_id, identity, hostname, now, okc)
          /\ events' = log_client_event(connected, oke,
                         Event(client_id, "authenticated", None, hostname, None, ""))
          /\ out' = Ack(identity, "hello", None, NoStr)
  /\ UNCHANGED <<connected, tasks, taskOrder, dbTasks, buffer, logs, aggregated,
                 fileLog, hist>>

\* bytes.fromhex(doc['identity_hex']) of a stored client document
HexVal(c) == IF c <= 57 THEN c - 48 ELSE c - 87

RECURSIVE BytesFromHex(_)
BytesFromHex(h) ==
  IF Len(h) < 2 THEN <<>>
  ELSE <<HexVal(h[1]) * 16 + HexVal(h[2])>> \o BytesFromHex(Tail(Tail(h)))

\* DataStore.get_client_by_id: <<identity or NoStr, clients afterwards>>
get_client_by_id(client_id, now, okf) ==
  LET i == FirstWithId(client_id)
  IN  IF i # 0 THEN <<clients[i].identity, clients>>
      ELSE IF connected /\ okf /\ client_id \in DOMAIN dbClients
      THEN LET identity_bytes == BytesFromHex(dbClients[client_id].identity_hex)
           IN  <<identity_bytes,
                 IF IndexOf(identity_bytes) = 0
                 THEN Append(clients, ClientEntry(identity_bytes, client_id, NoStr, now))
                 ELSE clients>>
      ELSE <<NoStr, clients>>

\* ----------------------------------------------------------- dispatch
\* ZMQServer.send_task_to_client with DataStore.add_task and
\* MongoDBManager.insert_task; task_id is the uuid4 drawn
send_task_to_client(task_id, target_identity, now, oki) ==
  LET target_str == identity_to_str(target_identity)
  IN  /\ tasks' = Put(tasks, task_id, TaskRecord(task_id, target_str, now))
      /\ taskOrder' = Append(taskOrder, task_id)
      /\ IF connected /\ oki
         THEN /\ dbTasks' = Put(dbTasks, task_id, TaskRecord(task_id, target_str, now))
              /\ buffer' = Put(buffer, task_id, EmptyEntry(target_str, None))
         ELSE UNCHANGED <<dbTasks, buffer>>
      /\ out' = <<Frame(target_identity, "exec", "exec", task_id, NoStr, "")>>

\* FlaskAPI.api_send: resolve the client, then dispatch
ApiSend(client_id, task_id, now, okf, oki) ==
  /\ task_id \notin DOMAIN tasks
  /\ LET r == get_client_by_id(client_id, now, okf)
     IN  IF r[1] = NoStr
         THEN /\ out' = <<>>
              /\ Raises(Fault(connected /\ FirstWithId(client_id) = 0, okf))
              /\ UNCHANGED <<clients, tasks, taskOrder, dbTasks, buffer>>
         ELSE /\ clients' = r[2]
              /\ Raises(Fault(connected, oki))
              /\ send_task_to_client(task_id, r[1], now, oki)
  /\ UNCHANGED <<connected, dbClients, logs, events, aggregated, fileLog, hist>>

\* ----------------------------------------------------------- handlers
\* MessageHandler.handle_task_started
TaskStarted(identity, task_id, now, oku) ==
  LET upd == [status |-> "running", started_at |-> now]
  IN  /\ Raises(Fault(connected, oku))
      /\ tasks' = MemUpdate(task_id, upd)
      /\ dbTasks' = IF connected /\ oku THEN DbUpdate(task_id, upd) ELSE dbTasks
      /\ out' = Ack(identity, "task", task_id, NoStr)
      /\ UNCHANGED <<connected, clients, dbClients, taskOrder, buffer, logs, events,
                     aggregated, fileLog, hist>>

\* utils.append_client_log: one line per event.  Nothing reads the files
\* back, so a line keeps the task and the kind of event, not its text.
Line(task_id, kind) == [task |-> task_id, kind |-> kind]

\* a recording of a chunk that does not advance the entry's counter
uncounted_output(client_id, task_id, msg_id, output, timestamp, now, oks) ==
  IF ~connected THEN <<buffer, logs[task_id], None, "dropped">>
  ELSE
    LET entry == IF task_id \in DOMAIN buffer THEN buffer[task_id]
                 ELSE EmptyEntry(client_id, timestamp)
        chunk == [output |-> output, sequence |-> entry.sequence,
                  timestamp |-> timestamp, msg_id |-> msg_id]
    IN  <<Put(buffer, task_id, [entry EXCEPT !.chunks = Append(@, chunk)]),
          logs[task_id], entry.sequence, "appended">>

\* MongoDBManager.log_client_output:
\* <<buffer, stream documents of the task, sequence assigned, outcome>>
log_client_output(client_id, task_id, msg_id, output, timestamp, now, oks) ==
  IF ~connected THEN <<buffer, logs[task_id], None, "dropped">>
  ELSE
    LET ts == IF timestamp = BadTs THEN now ELSE timestamp
        entry == IF task_id \in DOMAIN buffer THEN buffer[task_id]
                 ELSE EmptyEntry(client_id, ts)
        sequence == entry.sequence
        counted == [entry EXCEPT !.sequence = sequence + 1]
        streaming_doc == [client_id |-> client_id, task_id |-> task_id,
                          msg_id |-> msg_id, output |-> output,
                          sequence |-> sequence, timestamp |-> ts]
        chunk == [output |-> output, sequence |-> sequence, timestamp |-> ts,
                  msg_id |-> msg_id]
    IN  IF oks
        THEN <<Put(buffer, task_id, [counted EXCEPT !.chunks = Append(@, chunk)]),
               Append(logs[task_id], streaming_doc), sequence, "appended">>
        ELSE <<Put(buffer, task_id, counted), logs[task_id], sequence, "lost">>

\* MessageHandler.handle_output
handle_output(identity, task_id, chunk, msgid, msgts, now, oks) ==
  LET msg_id == IF msgid # NoStr THEN msgid ELSE GenMsgId
      ts == IF msgts # None THEN msgts ELSE now
      client_id == identity_to_str(identity)
      r == log_client_output(client_id, task_id, msg_id, chunk, ts, now, oks)
  IN  /\ Raises(Fault(connected, oks))
      /\ fileLog' = [fileLog EXCEPT ![client_id] =
                       Append(@, Line(task_id, "OUTPUT"))]
      /\ buffer' = r[1]
      /\ logs' = [logs EXCEPT ![task_id] = r[2]]
      /\ hist' = [hist EXCEPT ![task_id] =
                    Append(@, [ev |-> "chunk", seq |-> r[3], res |-> r[4], text |-> chunk])]
      /\ out' = Ack(identity, "msg", task_id, msg_id)
      /\ UNCHANGED <<connected, clients, dbClients, tasks, taskOrder, dbTasks, events,
                     aggregated>>

\* handle_output, for at most MaxChunks output messages per task
Output(identity, task_id, chunk, msgid, msgts, now, oks) ==
  /\ Count(hist[task_id], "chunk") < MaxChunks
  /\ handle_output(identity, task_id, chunk, msgid, msgts, now, oks)

\* MongoDBManager.update_task_status for a terminal status:
\* <<dbTasks, buffer, aggregated, outcome of the aggregation>>
update_terminal(task_id, upd, now, oku, oka) ==
  IF connected /\ oku
  THEN LET r == create_aggregated_output(task_id, upd.status, upd.exit_code, now, oka)
       IN  <<DbUpdate(task_id, upd), r[1], r[2], r[3]>>
  ELSE <<dbTasks, buffer, aggregated, "skipped">>

\* a completed handler that records every task as completed, whatever its
\* exit code
completed_any_exit(identity, task_id, exit_code, msgts, now, oku, oka, oke) ==
  LET ts == IF msgts # None THEN msgts ELSE now
      client_id == identity_to_str(identity)
      status == "completed"
      upd == [status |-> status, completed_at |-> ts, exit_code |-> exit_code]
      r == update_terminal(task_id, upd, now, oku, oka)
  IN  /\ Count(hist[task_id], "fin") < MaxCompleted
      /\ Raises(Fault(connected, oku)
                + Fault(connected /\ oku /\ task_id \in DOMAIN buffer, oka)
                + Fault(connected, oke))
      /\ tasks' = MemUpdate(task_id, upd)
      /\ dbTasks' = r[1]
      /\ buffer' = r[2]
      /\ aggregated' = r[3]
      /\ hist' = [hist EXCEPT ![task_id] =
                    Append(@, [ev |-> "fin", seq |-> None, res |-> r[4], text |-> NoStr])]
      /\ fileLog' = [fileLog EXCEPT ![client_id] =
                       Append(@, Line(task_id, "COMPLETED"))]
      /\ events' = log_client_event(connected, oke,
                     Event(client_id, "task_completed", task_id, NoStr, exit_code, status))
      /\ out' = Ack(identity, "completed", task_id, NoStr)
      /\ UNCHANGED <<connected, clients, dbClients, taskOrder, logs>>

\* MessageHandler.handle_completed
Completed(identity, task_id, exit_code, msgts, now, oku, oka, oke) ==
  LET ts == IF msgts # None THEN msgts ELSE now
      client_id == identity_to_str(identity)
      status == IF exit_code = 0 THEN "completed" ELSE "failed"
      upd == [status |-> status, completed_at |-> ts, exit_code |-> exit_code]
      r == update_terminal(task_id, upd, now, oku, oka)
  IN  /\ Count(hist[task_id], "fin") < MaxCompleted
      /\ Raises(Fault(connected, oku)
                + Fault(connected /\ oku /\ task_id \in DOMAIN buffer, oka)
                + Fault(connected, oke))
      /\ tasks' = MemUpdate(task_id, upd)
      /\ dbTasks' = r[1]
      /\ buffer' = r[2]
      /\ aggregated' = r[3]
      /\ hist' = [hist EXCEPT ![task_id] =
                    Append(@, [ev |-> "fin", seq |-> None, res |-> r[4], text |-> NoStr])]
      /\ fileLog' = [fileLog EXCEPT ![client_id] =
                       Append(@, Line(task_id, "COMPLETED"))]
      /\ events' = log_client_event(connected, oke,
                     Event(client_id, "task_completed", task_id, NoStr, exit_code, status))
      /\ out' = Ack(identity, "completed", task_id, NoStr)
      /\ UNCHANGED <<connected, clients, dbClients, taskOrder, logs>>

\* MongoDBManager.is_connected: the ping fails, and the manager stays
\* disconnected from then on (nothing reconnects)
LoseConnection ==
  /\ connected
  /\ connected' = FALSE
  /\ UNCHANGED <<clients, dbClients, tasks, taskOrder, dbTasks, buffer, logs, events,
                 aggregated, fileLog, faults, out, hist>>
  /\ UNCHANGED auxVars

\* ----------------------------------------------------- specification
\* The aggregation engine: one client registers, tasks are dispatched to
\* it and it reports on them; the store may fail at any write and may
\* become unreachable.  The hub's clock reads HubTimes, the client's
\* timestamps range over Times.
HubTimes == {1}
Senders == {IdA}

Register ==
  \E now \in HubTimes :
    /\ IndexOf(IdA) = 0
    /\ Hello(IdA, <<119, 49>>, TRUE, TRUE, NoStr, now, TRUE, TRUE)
    /\ UNCHANGED auxVars

Dispatch ==
  \E c \in ClientIds, t \in TaskIds, now \in HubTimes, oki \in BOOLEAN :
    ApiSend(c, t, now, TRUE, oki) /\ UNCHANGED auxVars

RecvTaskStarted ==
  \E i \in Senders, t \in DOMAIN tasks, now \in HubTimes :
    TaskStarted(i, t, now, TRUE) /\ UNCHANGED auxVars

RecvOutput ==
  \E i \in Senders, t \in DOMAIN tasks, c \in ChunkTexts,
     ts \in Times \cup {None}, now \in HubTimes, oks \in BOOLEAN :
    Output(i, t, c, NoStr, ts, now, oks) /\ UNCHANGED auxVars

RecvCompleted ==
  \E i \in Senders, t \in DOMAIN tasks, e \in {0, 1},
     ts \in Times \cup {None}, now \in HubTimes,
     oku \in BOOLEAN, oka \in BOOLEAN :
    Completed(i, t, e, ts, now, oku, oka, TRUE) /\ UNCHANGED auxVars

Next ==
  \/ Register
  \/ Dispatch
  \/ RecvTaskStarted
  \/ RecvOutput
  \/ RecvCompleted
  \/ LoseConnection

Spec == Init /\ [][Next]_vars

\* ------------------------------------------------------- inbound loop
\* A payload is a short byte string.  An object is written
\* { type client_id api_key task exit_code chunk } with one byte per field
\* and 0 for a field the object does not carry.
WireObject(type, client_id, api_key, task, exit_code, chunk) ==
  <<123, type, client_id, api_key, task, exit_code, chunk, 125>>
\* "[]": JSON, but not an object
WireArray == <<91, 93>>
\* "{": not JSON
WireBadJson == <<123>>
\* a byte string that is not UTF-8
WireBadUtf8 == <<255>>

TypeNames == <<"hello", "task_started", "output", "completed", "ping">>
\* a "task" field that is a JSON array: a value that cannot be a dict key
Unhashable == -2
WireList == 9
\* the api keys a hello can carry: 1 is an active key of the key store,
\* 2 is not
ValidKey == 1

\* json.loads(raw.decode('utf-8')): <<parsed, is an object, the object>>
json_loads(raw) ==
  LET none == [type |-> "", client_id |-> NoStr, api_key |-> 0, task |-> None,
               exit_code |-> None, chunk |-> NoStr]
  IN  IF Len(raw) = 8 /\ raw[1] = 123 /\ raw[8] = 125
      THEN <<TRUE, TRUE,
             [type |-> IF raw[2] = 0 THEN "" ELSE TypeNames[raw[2]],
              client_id |-> IF raw[3] = 0 THEN NoStr ELSE <<119, 48 + raw[3]>>,
              api_key |-> raw[4],
              task |-> IF raw[5] = 0 THEN None
                       ELSE IF raw[5] = WireList THEN Unhashable ELSE raw[5],
              exit_code |-> IF raw[6] = 0 THEN None ELSE raw[6] - 1,
              chunk |-> IF raw[7] = 0 THEN NoStr ELSE <<96 + raw[7]>>]>>
      ELSE IF raw = WireArray THEN <<TRUE, FALSE, none>>
      ELSE <<FALSE, FALSE, none>>

\* a parser that takes the first and the last of any two frames or more
\* for the identity and the payload
lenient_frames(parts) ==
  IF Len(parts) >= 2 THEN <<TRUE, parts[1], parts[Len(parts)]>>
  ELSE <<FALSE, <<>>, <<>>>>

\* a parser that knows the canonical shape only
strict_frames(parts) ==
  IF Len(parts) = 3 /\ parts[2] = <<>> THEN <<TRUE, parts[1], parts[3]>>
  ELSE <<FALSE, <<>>, <<>>>>

\* utils.parse_router_frames: <<accepted, identity, payload>>
parse_router_frames(parts) ==
  IF Len(parts) = 3 /\ parts[2] = <<>> THEN <<TRUE, parts[1], parts[3]>>
  ELSE IF Len(parts) = 2 THEN <<TRUE, parts[1], parts[2]>>
  ELSE <<FALSE, <<>>, <<>>>>

\* the operations below leave everything but the socket alone
dataVars == <<connected, clients, dbClients, tasks, taskOrder, dbTasks, buffer,
              logs, events, aggregated, fileLog, faults, hist>>

\* a handler that answers an unknown type with nothing
silent_unknown(identity) ==
  /\ out' = <<>>
  /\ UNCHANGED dataVars

\* MessageHandler.handle_unknown
handle_unknown(identity) ==
  /\ out' = Ack(identity, "unknown", None, NoStr)
  /\ UNCHANGED dataVars

\* MessageHandler.handle_hello on a parsed message
handle_hello(identity, msg, now) ==
  Hello(identity, msg.client_id, msg.api_key # 0, msg.api_key = ValidKey, NoStr,
        now, TRUE, TRUE)

\* ZMQServer._process_message on the frames received.  msg.get on a JSON
\* value that is not an object raises AttributeError, and
\* self.tasks.get(task_id) in handle_task_started raises TypeError on a
\* task id that is not hashable; nothing between here and the thread's
\* entry point catches either: the thread ends.
process_message(parts, now) ==
  LET f == parse_router_frames(parts)
      identity == f[2]
      raw == f[3]
      j == json_loads(raw)
      msg == j[3]
  IN  /\ running
      /\ recv' = parts
      /\ UNCHANGED <<pc, locks, local, tail,
                 apiKeys, req, arg, ret>>
      /\ IF ~f[1] \/ raw = <<>> \/ ~j[1]
         THEN /\ out' = <<>>
              /\ UNCHANGED <<dataVars, running>>
         ELSE IF ~j[2] \/ (msg.type = "task_started" /\ msg.task = Unhashable)
         THEN /\ running' = FALSE
              /\ out' = <<>>
              /\ UNCHANGED dataVars
         ELSE /\ UNCHANGED running
              /\ CASE msg.type = "hello" -> handle_hello(identity, msg, now)
                   [] msg.type = "task_started" -> TaskStarted(identity, msg.task, now, TRUE)
                   [] msg.type = "output" ->
                        Output(identity, msg.task, msg.chunk, NoStr, None, now, TRUE)
                   [] msg.type = "completed" ->
                        Completed(identity, msg.task, msg.exit_code, None, now,
                                  TRUE, TRUE, TRUE)
                   [] OTHER -> handle_unknown(identity)

\* The inbound loop under any traffic: two connections send frame lists of
\* every shape, with payloads that are empty, not UTF-8, not JSON, not an
\* object, or an object of any type carrying or lacking its fields, while
\* the HTTP API dispatches tasks and the store may become unreachable.
\* number of output and completed messages the loop handles in all
MaxHandled == 2
HelloObjects == {WireObject(1, c, k, 0, 0, 0) : c \in {0, 1}, k \in {0, 1, 2}}
TaskObjects ==
  {WireObject(2, 0, 0, t, 0, 0) : t \in {0, WireList} \cup TaskIds}
    \cup {WireObject(3, 0, 0, t, 0, 1) : t \in {0} \cup TaskIds}
    \cup {WireObject(4, 0, 0, t, e, 0) : t \in {0} \cup TaskIds, e \in {0, 1}}
    \cup {WireObject(5, 0, 0, 0, 0, 0), WireObject(0, 0, 0, 0, 0, 0)}
BadPayloads == {<<>>, WireBadJson, WireBadUtf8}
FrameLists ==
  {<<i, <<>>, p>> : i \in Identities, p \in HelloObjects}
    \cup {<<IdA, <<>>, p>> : p \in TaskObjects \cup BadPayloads \cup {WireArray}}
    \cup {<<IdA, p>> : p \in {WireObject(3, 0, 0, 1, 0, 1), <<>>}}
    \cup {<<IdA>>,
          <<IdA, <<120>>, WireObject(3, 0, 0, 1, 0, 1)>>,
          <<IdA, <<>>, <<>>, WireObject(3, 0, 0, 1, 0, 1)>>}

NumHandled == Cardinality(UNION {{<<k, n>> : n \in 1..Len(hist[k])} : k \in TaskKeys})

ProcessMessage ==
  \E parts \in FrameLists, now \in HubTimes :
    /\ NumHandled < MaxHandled
    /\ process_message(parts, now)

ApiDispatch ==
  \E c \in ClientIds, t \in TaskIds, now \in HubTimes :
    /\ ApiSend(c, t, now, TRUE, TRUE)
    /\ recv' = <<>>
    /\ UNCHANGED <<running, pc, locks, local, tail,
                 apiKeys, req, arg, ret>>

\* MongoDBManager.is_connected: the ping fails
StoreLost ==
  /\ connected
  /\ connected' = FALSE
  /\ recv' = <<>>
  /\ UNCHANGED <<clients, dbClients, tasks, taskOrder, dbTasks, buffer, logs, events,
                 aggregated, fileLog, faults, out, hist, running, pc, locks, local, tail,
                 apiKeys, req, arg, ret>>

NextInbound ==
  \/ ProcessMessage
  \/ ApiDispatch
  \/ StoreLost

SpecInbound == Init /\ [][NextInbound]_vars

\* ---------------------------------------------------- reconnections
\* One external client, "w1", registers and registers again from either
\* connection while the API dispatches tasks to it and the store may
\* become unreachable.
MaxClock == 2
Clock == 1..MaxClock
\* the wall clock does not run backwards: a reading is no earlier than any
\* time recorded in the client registry
Readings == {n \in Clock : \A i \in 1..Len(clients) : clients[i].last_seen <= n}

ClientHello ==
  \E i \in Identities, now \in Readings :
    process_message(<<i, <<>>, WireObject(1, 1, ValidKey, 0, 0, 0)>>, now)

\* a hello of "w1" that carries a hostname, or none
HostHello ==
  \E i \in Identities, h \in Hostnames, now \in Readings :
    /\ Hello(i, <<119, 49>>, TRUE, TRUE, h, now, TRUE, TRUE)
    /\ recv' = <<>>
    /\ UNCHANGED <<running, pc, locks, local, tail, apiKeys, req, arg, ret>>

NextClients ==
  \/ ClientHello
  \/ HostHello
  \/ ApiDispatch
  \/ StoreLost

SpecClients == Init /\ [][NextClients]_vars

\* ------------------------------------------------------------ threads
\* The inbound loop and one HTTP request thread, statement by statement.
\* A thread at a label executes that statement next; between two labels
\* the other thread may run.  Client "w1" on connection IdA sends output
\* and completed messages for the tasks it was sent, and output messages
\* that name no task; the HTTP thread dispatches tasks and lists them.
Goto(th, label) == [pc EXCEPT ![th] = label]
Acquire(l, th) == locks[l] = "free" /\ locks' = [locks EXCEPT ![l] = th]
Release(l) == locks' = [locks EXCEPT ![l] = "free"]
\* the task ids the client can name: those of the exec frames it received
Sent(t) ==
  /\ t \in DOMAIN tasks
  /\ ~(local["http"].task = t
       /\ pc["http"] \in {"a_lock", "a_put", "i_insert", "i_buffer", "s_send"})

\* handle_hello -> add_or_update_client: with self.clients_lock
HelloLock ==
  /\ pc["loop"] = "idle"
  /\ Acquire("clients", "loop")
  /\ pc' = Goto("loop", "h_body")
  /\ UNCHANGED <<connected, clients, dbClients, tasks, taskOrder, dbTasks,
                 buffer, logs, events, aggregated, fileLog, faults, out, hist,
                 running, recv, local, tail,
                 apiKeys, req, arg, ret>>

\* add_or_update_client under the lock, then the event and the ack
HelloBody ==
  /\ pc["loop"] = "h_body"
  /\ \E now \in HubTimes : Hello(IdA, <<119, 49>>, TRUE, TRUE, NoStr, now, TRUE, TRUE)
  /\ Release("clients")
  /\ pc' = Goto("loop", "idle")
  /\ UNCHANGED <<running, recv, local, tail,
                 apiKeys, req, arg, ret>>

\* handle_output: the file log line, then log_client_output is entered
OutEnter ==
  /\ pc["loop"] = "idle"
  /\ \E t \in TaskKeys :
       /\ t = None \/ Sent(t)
       /\ Count(hist[t], "chunk") < MaxChunks
       /\ fileLog' = [fileLog EXCEPT ![identity_to_str(IdA)] =
                        Append(@, Line(t, "OUTPUT"))]
       /\ local' = [local EXCEPT !["loop"] = [NoLocals EXCEPT !.task = t]]
  /\ pc' = Goto("loop", "o_check")
  /\ UNCHANGED <<connected, clients, dbClients, tasks, taskOrder, dbTasks,
                 buffer, logs, events, aggregated, faults, out, hist, running,
                 recv, locks, tail,
                 apiKeys, req, arg, ret>>

\* log_client_output: is_connected, and the buffer entry created when absent
OutCheck ==
  /\ pc["loop"] = "o_check"
  /\ LET t == local["loop"].task
     IN  IF ~connected
         THEN /\ pc' = Goto("loop", "o_ack")
              /\ UNCHANGED buffer
         ELSE /\ buffer' = IF t \in DOMAIN buffer THEN buffer
                           ELSE Put(buffer, t, EmptyEntry(identity_to_str(IdA), 1))
              /\ pc' = Goto("loop", "o_seq")
  /\ UNCHANGED <<connected, clients, dbClients, tasks, taskOrder, dbTasks,
                 logs, events, aggregated, fileLog, faults, out, hist, running,
                 recv, locks, local, tail,
                 apiKeys, req, arg, ret>>

\* sequence = buffer_info['sequence']; buffer_info['sequence'] += 1
OutSeq ==
  /\ pc["loop"] = "o_seq"
  /\ LET t == local["loop"].task
     IN  /\ local' = [local EXCEPT !["loop"].sequence = buffer[t].sequence]
         /\ buffer' = [buffer EXCEPT ![t].sequence = @ + 1]
  /\ pc' = Goto("loop", "o_insert")
  /\ UNCHANGED <<connected, clients, dbClients, tasks, taskOrder, dbTasks,
                 logs, events, aggregated, fileLog, faults, out, hist, running,
                 recv, locks, tail,
                 apiKeys, req, arg, ret>>

\* logs_collection.insert_one(streaming_doc)
OutInsert ==
  /\ pc["loop"] = "o_insert"
  /\ LET t == local["loop"].task
     IN  logs' = [logs EXCEPT ![t] =
                    Append(@, [client_id |-> identity_to_str(IdA), task_id |-> t,
                               msg_id |-> GenMsgId, output |-> <<97>>,
                               sequence |-> local["loop"].sequence, timestamp |-> 1])]
  /\ pc' = Goto("loop", "o_append")
  /\ UNCHANGED <<connected, clients, dbClients, tasks, taskOrder, dbTasks,
                 buffer, events, aggregated, fileLog, faults, out, hist,
                 running, recv, locks, local, tail,
                 apiKeys, req, arg, ret>>

\* buffer_info['chunks'].append(...)
OutAppend ==
  /\ pc["loop"] = "o_append"
  /\ LET t == local["loop"].task
     IN  buffer' = [buffer EXCEPT ![t].chunks =
                      Append(@, [output |-> <<97>>, sequence |-> local["loop"].sequence,
                                 timestamp |-> 1, msg_id |-> GenMsgId])]
  /\ pc' = Goto("loop", "o_ack")
  /\ UNCHANGED <<connected, clients, dbClients, tasks, taskOrder, dbTasks,
                 logs, events, aggregated, fileLog, faults, out, hist, running,
                 recv, locks, local, tail,
                 apiKeys, req, arg, ret>>

\* handle_output: the ack
OutAck ==
  /\ pc["loop"] = "o_ack"
  /\ LET t == local["loop"].task
         n == local["loop"].sequence
     IN  /\ hist' = [hist EXCEPT ![t] =
                       Append(@, [ev |-> "chunk", seq |-> n,
                                  res |-> IF n = None THEN "dropped" ELSE "appended",
                                  text |-> <<97>>])]
         /\ out' = Ack(IdA, "msg", t, GenMsgId)
  /\ local' = [local EXCEPT !["loop"] = NoLocals]
  /\ pc' = Goto("loop", "idle")
  /\ UNCHANGED <<connected, clients, dbClients, tasks, taskOrder, dbTasks,
                 buffer, logs, events, aggregated, fileLog, faults, running,
                 recv, locks, tail,
                 apiKeys, req, arg, ret>>

\* handle_completed: the fields of the transition
FinEnter ==
  /\ pc["loop"] = "idle"
  /\ \E t \in TaskIds, e \in {0, 1} :
       /\ Sent(t)
       /\ Count(hist[t], "fin") < MaxCompleted
       /\ local' = [local EXCEPT !["loop"] =
                      [NoLocals EXCEPT !.task = t,
                                       !.status = IF e = 0 THEN "completed" ELSE "failed",
                                       !.completed_at = 1,
                                       !.exit_code = e]]
  /\ pc' = Goto("loop", "c_lock")
  /\ UNCHANGED <<connected, clients, dbClients, tasks, taskOrder, dbTasks,
                 buffer, logs, events, aggregated, fileLog, faults, out, hist,
                 running, recv, locks, tail,
                 apiKeys, req, arg, ret>>

\* DataStore.update_task_status: with self.tasks_lock
FinLock ==
  /\ pc["loop"] = "c_lock"
  /\ Acquire("tasks", "loop")
  /\ pc' = Goto("loop", "c_status")
  /\ UNCHANGED <<connected, clients, dbClients, tasks, taskOrder, dbTasks,
                 buffer, logs, events, aggregated, fileLog, faults, out, hist,
                 running, recv, local, tail,
                 apiKeys, req, arg, ret>>

\* task = self.tasks.get(task_id); if task: task['status'] = status, and
\* for a task that is not cached the lock is released at once
FinStatus ==
  /\ pc["loop"] = "c_status"
  /\ IF local["loop"].task \in DOMAIN tasks
     THEN /\ tasks' = [tasks EXCEPT ![local["loop"].task].status =
                         local["loop"].status]
          /\ pc' = Goto("loop", "c_completed_at")
          /\ UNCHANGED locks
     ELSE /\ Release("tasks")
          /\ pc' = Goto("loop", "c_store")
          /\ UNCHANGED tasks
  /\ UNCHANGED <<connected, clients, dbClients, taskOrder, dbTasks, buffer,
                 logs, events, aggregated, fileLog, faults, out, hist, running,
                 recv, local, tail,
                 apiKeys, req, arg, ret>>

\* task['completed_at'] = value
FinCompletedAt ==
  /\ pc["loop"] = "c_completed_at"
  /\ tasks' = [tasks EXCEPT ![local["loop"].task].completed_at = local["loop"].completed_at]
  /\ pc' = Goto("loop", "c_exit_code")
  /\ UNCHANGED <<connected, clients, dbClients, taskOrder, dbTasks, buffer,
                 logs, events, aggregated, fileLog, faults, out, hist, running,
                 recv, locks, local, tail,
                 apiKeys, req, arg, ret>>

\* task['exit_code'] = value, and the lock is released
FinExitCode ==
  /\ pc["loop"] = "c_exit_code"
  /\ tasks' = [tasks EXCEPT ![local["loop"].task].exit_code = local["loop"].exit_code]
  /\ Release("tasks")
  /\ pc' = Goto("loop", "c_store")
  /\ UNCHANGED <<connected, clients, dbClients, taskOrder, dbTasks, buffer,
                 logs, events, aggregated, fileLog, faults, out, hist, running,
                 recv, local, tail,
                 apiKeys, req, arg, ret>>

\* MongoDBManager.update_task_status with the aggregation, then the file log, the event and the ack of handle_completed
FinStore ==
  /\ pc["loop"] = "c_store"
  /\ LET t == local["loop"].task
         upd == [status |-> local["loop"].status,
                 completed_at |-> local["loop"].completed_at,
                 exit_code |-> local["loop"].exit_code]
         r == update_terminal(t, upd, 1, TRUE, TRUE)
     IN  /\ dbTasks' = r[1]
         /\ buffer' = r[2]
         /\ aggregated' = r[3]
         /\ hist' = [hist EXCEPT ![t] =
                       Append(@, [ev |-> "fin", seq |-> None, res |-> r[4], text |-> NoStr])]
         /\ fileLog' = [fileLog EXCEPT ![identity_to_str(IdA)] =
                          Append(@, Line(t, "COMPLETED"))]
         /\ events' = log_client_event(connected, TRUE,
                        Event(identity_to_str(IdA), "task_completed", t, NoStr,
                              upd.exit_code, upd.status))
         /\ out' = Ack(IdA, "completed", t, NoStr)
  /\ local' = [local EXCEPT !["loop"] = NoLocals]
  /\ pc' = Goto("loop", "idle")
  /\ UNCHANGED <<connected, clients, dbClients, tasks, taskOrder, logs, faults,
                 running, recv, locks, tail,
                 apiKeys, req, arg, ret>>

\* api_send: get_client_by_id, which scans the cache under clients_lock
SendResolve ==
  /\ pc["http"] = "idle"
  /\ locks["clients"] = "free"
  /\ \E c \in ClientIds, t \in TaskIds :
       LET r == get_client_by_id(c, 1, TRUE)
       IN  /\ t \notin DOMAIN tasks
           /\ r[1] # NoStr
           /\ clients' = r[2]
           /\ local' = [local EXCEPT !["http"] =
                          [NoLocals EXCEPT !.task = t, !.identity = r[1]]]
  /\ pc' = Goto("http", "a_lock")
  /\ UNCHANGED <<connected, dbClients, tasks, taskOrder, dbTasks, buffer, logs,
                 events, aggregated, fileLog, faults, out, hist, running, recv,
                 locks, tail,
                 apiKeys, req, arg, ret>>

\* an add_task that takes tasks_lock together with clients_lock
AddLockNested ==
  /\ pc["http"] = "a_lock"
  /\ \A l \in Locks : locks[l] = "free"
  /\ locks' = [l \in Locks |-> "http"]
  /\ pc' = Goto("http", "a_put")
  /\ UNCHANGED <<connected, clients, dbClients, tasks, taskOrder, dbTasks,
                 buffer, logs, events, aggregated, fileLog, faults, out, hist,
                 running, recv, local, tail, apiKeys, req, arg, ret>>

\* DataStore.add_task: with self.tasks_lock
AddLock ==
  /\ pc["http"] = "a_lock"
  /\ Acquire("tasks", "http")
  /\ pc' = Goto("http", "a_put")
  /\ UNCHANGED <<connected, clients, dbClients, tasks, taskOrder, dbTasks,
                 buffer, logs, events, aggregated, fileLog, faults, out, hist,
                 running, recv, local, tail,
                 apiKeys, req, arg, ret>>

\* self.tasks[task_id] = task_info, and the lock is released
AddPut ==
  /\ pc["http"] = "a_put"
  /\ LET t == local["http"].task
     IN  /\ tasks' = Put(tasks, t, TaskRecord(t, identity_to_str(local["http"].identity), 1))
         /\ taskOrder' = Append(taskOrder, t)
  /\ Release("tasks")
  /\ pc' = Goto("http", "i_insert")
  /\ UNCHANGED <<connected, clients, dbClients, dbTasks, buffer, logs, events,
                 aggregated, fileLog, faults, out, hist, running, recv, local,
                 tail,
                 apiKeys, req, arg, ret>>

\* MongoDBManager.insert_task: is_connected and tasks_collection.insert_one
InsertTask ==
  /\ pc["http"] = "i_insert"
  /\ LET t == local["http"].task
     IN  IF connected
         THEN /\ dbTasks' = Put(dbTasks, t,
                              TaskRecord(t, identity_to_str(local["http"].identity), 1))
              /\ pc' = Goto("http", "i_buffer")
         ELSE /\ UNCHANGED dbTasks
              /\ pc' = Goto("http", "s_send")
  /\ UNCHANGED <<connected, clients, dbClients, tasks, taskOrder, buffer, logs,
                 events, aggregated, fileLog, faults, out, hist, running, recv,
                 locks, local, tail,
                 apiKeys, req, arg, ret>>

\* insert_task: self._task_output_buffer[task_id] = {...}
InsertBuffer ==
  /\ pc["http"] = "i_buffer"
  /\ LET t == local["http"].task
     IN  buffer' = Put(buffer, t, EmptyEntry(identity_to_str(local["http"].identity), None))
  /\ pc' = Goto("http", "s_send")
  /\ UNCHANGED <<connected, clients, dbClients, tasks, taskOrder, dbTasks,
                 logs, events, aggregated, fileLog, faults, out, hist, running,
                 recv, locks, local, tail,
                 apiKeys, req, arg, ret>>

\* a dispatch that transmits another id than the one it created
SendOtherId ==
  /\ pc["http"] = "s_send"
  /\ out' = <<Frame(local["http"].identity, "exec", "exec", local["http"].task + 1,
                    NoStr, "")>>
  /\ ret' = local["http"].task
  /\ local' = [local EXCEPT !["http"] = NoLocals]
  /\ pc' = Goto("http", "idle")
  /\ UNCHANGED <<connected, clients, dbClients, tasks, taskOrder, dbTasks, buffer,
                 logs, events, aggregated, fileLog, faults, hist, running, recv,
                 locks, tail, apiKeys, req, arg>>

\* send_task_to_client: router.send_multipart, and return task_id
SendExec ==
  /\ pc["http"] = "s_send"
  /\ out' = <<Frame(local["http"].identity, "exec", "exec", local["http"].task, NoStr, "")>>
  /\ ret' = local["http"].task
  /\ local' = [local EXCEPT !["http"] = NoLocals]
  /\ pc' = Goto("http", "idle")
  /\ UNCHANGED <<connected, clients, dbClients, tasks, taskOrder, dbTasks, buffer,
                 logs, events, aggregated, fileLog, faults, hist, running, recv,
                 locks, tail, apiKeys, req, arg>>

\* api_tasks -> get_all_tasks: the persisted documents when the store is
\* reachable, else the cached records themselves, taken under tasks_lock
ListTasks ==
  /\ pc["http"] = "idle"
  /\ \E t \in TaskIds :
       IF connected
       THEN /\ t \in DOMAIN dbTasks
            /\ local' = [local EXCEPT !["http"] =
                           [NoLocals EXCEPT !.task = t,
                                            !.status = dbTasks[t].status,
                                            !.completed_at = dbTasks[t].completed_at,
                                            !.exit_code = dbTasks[t].exit_code]]
            /\ pc' = Goto("http", "r_respond")
       ELSE /\ t \in DOMAIN tasks
            /\ locks["tasks"] = "free"
            /\ local' = [local EXCEPT !["http"] = [NoLocals EXCEPT !.task = t]]
            /\ pc' = Goto("http", "r_status")
  /\ UNCHANGED <<connected, clients, dbClients, tasks, taskOrder, dbTasks,
                 buffer, logs, events, aggregated, fileLog, faults, out, hist,
                 running, recv, locks, tail,
                 apiKeys, req, arg, ret>>

\* sanitize_for_json reads the record's items: status
ReadStatus ==
  /\ pc["http"] = "r_status"
  /\ local' = [local EXCEPT !["http"].status = tasks[local["http"].task].status]
  /\ pc' = Goto("http", "r_completed_at")
  /\ UNCHANGED <<connected, clients, dbClients, tasks, taskOrder, dbTasks,
                 buffer, logs, events, aggregated, fileLog, faults, out, hist,
                 running, recv, locks, tail,
                 apiKeys, req, arg, ret>>

\* ... completed_at
ReadCompletedAt ==
  /\ pc["http"] = "r_completed_at"
  /\ local' = [local EXCEPT !["http"].completed_at = tasks[local["http"].task].completed_at]
  /\ pc' = Goto("http", "r_exit_code")
  /\ UNCHANGED <<connected, clients, dbClients, tasks, taskOrder, dbTasks,
                 buffer, logs, events, aggregated, fileLog, faults, out, hist,
                 running, recv, locks, tail,
                 apiKeys, req, arg, ret>>

\* ... exit_code
ReadExitCode ==
  /\ pc["http"] = "r_exit_code"
  /\ local' = [local EXCEPT !["http"].exit_code = tasks[local["http"].task].exit_code]
  /\ pc' = Goto("http", "r_respond")
  /\ UNCHANGED <<connected, clients, dbClients, tasks, taskOrder, dbTasks,
                 buffer, logs, events, aggregated, fileLog, faults, out, hist,
                 running, recv, locks, tail,
                 apiKeys, req, arg, ret>>

\* the record read is returned to the caller
Respond ==
  /\ pc["http"] = "r_respond"
  /\ local' = [local EXCEPT !["http"] = NoLocals]
  /\ pc' = Goto("http", "idle")
  /\ UNCHANGED <<connected, clients, dbClients, tasks, taskOrder, dbTasks,
                 buffer, logs, events, aggregated, fileLog, faults, out, hist,
                 running, recv, locks, tail,
                 apiKeys, req, arg, ret>>

NextThreads ==
  \/ HelloLock
  \/ HelloBody
  \/ OutEnter
  \/ OutCheck
  \/ OutSeq
  \/ OutInsert
  \/ OutAppend
  \/ OutAck
  \/ FinEnter
  \/ FinLock
  \/ FinStatus
  \/ FinCompletedAt
  \/ FinExitCode
  \/ FinStore
  \/ SendResolve
  \/ AddLock
  \/ AddPut
  \/ InsertTask
  \/ InsertBuffer
  \/ SendExec
  \/ ListTasks
  \/ ReadStatus
  \/ ReadCompletedAt
  \/ ReadExitCode
  \/ Respond
  \/ StoreLost

SpecThreads == Init /\ [][NextThreads]_vars

\* The same threads under the scheduling of the interpreter: a thread
\* inside a with-block keeps running until it leaves the block, and a thread
\* blocked on a lock that is released again and again gets it in the end.
\* handle_completed of a message that names no cached task:
\* update_task_status takes tasks_lock all the same
FinEnterUnknown ==
  /\ pc["loop"] = "idle"
  /\ \E e \in {0, 1} :
       /\ Count(hist[None], "fin") < MaxCompleted
       /\ local' = [local EXCEPT !["loop"] =
                      [NoLocals EXCEPT !.task = None,
                                       !.status = IF e = 0 THEN "completed" ELSE "failed",
                                       !.completed_at = 1,
                                       !.exit_code = e]]
  /\ pc' = Goto("loop", "c_lock")
  /\ UNCHANGED <<connected, clients, dbClients, tasks, taskOrder, dbTasks,
                 buffer, logs, events, aggregated, fileLog, faults, out, hist,
                 running, recv, locks, tail, apiKeys, req, arg, ret>>

\* the steps of the two threads that take a lock, or run between two of them
NextLocks ==
  \/ HelloLock
  \/ HelloBody
  \/ FinEnter
  \/ FinEnterUnknown
  \/ FinLock
  \/ FinStatus
  \/ FinCompletedAt
  \/ FinExitCode
  \/ FinStore
  \/ SendResolve
  \/ AddLock
  \/ AddPut
  \/ InsertTask
  \/ InsertBuffer
  \/ SendExec
  \/ ListTasks
  \/ ReadStatus
  \/ ReadCompletedAt
  \/ ReadExitCode
  \/ Respond
  \/ StoreLost

threadVars == <<pc, locks>>

SpecLocks ==
  /\ Init /\ [][NextLocks]_vars
  /\ WF_threadVars(HelloBody)
  /\ WF_threadVars(FinStatus)
  /\ WF_threadVars(FinCompletedAt)
  /\ WF_threadVars(FinExitCode)
  /\ WF_threadVars(AddPut)
  /\ SF_threadVars(FinLock)
  /\ SF_threadVars(AddLock)

\* ---------------------------------------------------------- live tail
\* GET /api/task/<task_id>/output/live: one HTTP thread runs the generator
\* below while the inbound loop handles the client's messages.  The store
\* does not fail at a write here; it may become unreachable.
TailEvent(type, sequence, output, status, exit_code) ==
  [type |-> type, sequence |-> sequence, output |-> output, status |-> status,
   exit_code |-> exit_code]

\* MongoDBManager.get_task_streaming_logs: the task's streaming documents
\* in order of their sequence numbers, none when the store is unreachable
get_task_streaming_logs(task_id) ==
  IF ~connected THEN <<>> ELSE SortBySeq(logs[task_id])

\* DataStore.get_task: the persisted document when the store is reachable,
\* else the cached record; as a set, empty where the code returns None
get_task(task_id) ==
  IF connected
  THEN IF task_id \in DOMAIN dbTasks THEN {dbTasks[task_id]} ELSE {}
  ELSE IF task_id \in DOMAIN tasks THEN {tasks[task_id]} ELSE {}

\* [chunk for chunk in chunks if chunk.get('sequence', 0) > last_sequence]
RECURSIVE NewChunks(_, _)
NewChunks(chunks, last_sequence) ==
  IF chunks = <<>> THEN <<>>
  ELSE IF Head(chunks).sequence > last_sequence
       THEN <<Head(chunks)>> \o NewChunks(Tail(chunks), last_sequence)
       ELSE NewChunks(Tail(chunks), last_sequence)

\* the events yielded for the chunks of s, in order
RECURSIVE ChunkEvents(_)
ChunkEvents(s) ==
  IF s = <<>> THEN <<>>
  ELSE <<TailEvent("chunk", Head(s).sequence, Head(s).output, "", None)>>
         \o ChunkEvents(Tail(s))

\* api_task_live_stream: the request arrives, last_sequence = 0
TailStart ==
  /\ tail.state = "closed"
  /\ \E t \in TaskIds :
       tail' = [state |-> "open", task |-> t, last_sequence |-> 0, events |-> <<>>]
  /\ UNCHANGED <<connected, clients, dbClients, tasks, taskOrder, dbTasks, buffer,
                 logs, events, aggregated, fileLog, faults, out, hist, running,
                 recv, pc, locks, local,
                 apiKeys, req, arg, ret>>

\* one iteration of generate()'s loop: the new chunks are yielded, then
\* the completion event when the task read is completed or failed, and
\* the loop is left; else it sleeps and polls again
TailPoll ==
  /\ tail.state = "open"
  /\ LET new_chunks == SortBySeq(NewChunks(get_task_streaming_logs(tail.task),
                                           tail.last_sequence))
         last == IF new_chunks = <<>> THEN tail.last_sequence
                 ELSE new_chunks[Len(new_chunks)].sequence
         found == {task \in get_task(tail.task) : task.status \in Terminal}
         yielded == tail.events \o ChunkEvents(new_chunks)
     IN  IF found # {}
         THEN \E task \in found :
                tail' = [tail EXCEPT
                           !.state = "done",
                           !.last_sequence = last,
                           !.events = Append(yielded,
                                        TailEvent("task_completed", None, NoStr,
                                                  task.status, task.exit_code))]
         ELSE tail' = [tail EXCEPT !.last_sequence = last, !.events = yielded]
  /\ UNCHANGED <<connected, clients, dbClients, tasks, taskOrder, dbTasks, buffer,
                 logs, events, aggregated, fileLog, faults, out, hist, running,
                 recv, pc, locks, local,
                 apiKeys, req, arg, ret>>

ClientStarted ==
  \E t \in DOMAIN tasks, now \in HubTimes :
    TaskStarted(IdA, t, now, TRUE) /\ UNCHANGED auxVars

ClientOutput ==
  \E t \in DOMAIN tasks, c \in ChunkTexts, now \in HubTimes :
    Output(IdA, t, c, NoStr, None, now, TRUE) /\ UNCHANGED auxVars

ClientCompleted ==
  \E t \in DOMAIN tasks, e \in {0, 1}, now \in HubTimes :
    Completed(IdA, t, e, None, now, TRUE, TRUE, TRUE) /\ UNCHANGED auxVars

NextTail ==
  \/ Register
  \/ ApiDispatch
  \/ ClientStarted
  \/ ClientOutput
  \/ ClientCompleted
  \/ LoseConnection
  \/ TailStart
  \/ TailPoll

\* the generator polls again after every sleep, as long as it is open
SpecTail == Init /\ [][NextTail]_vars /\ WF_vars(TailPoll)

\* A task that goes on sending output after it reported completion, tailed
\* by one request: up to MaxTailChunks output messages with the store
\* reachable and no write failing.
MaxTailChunks == 4

LateOutput ==
  \E t \in DOMAIN tasks, now \in HubTimes :
    /\ Count(hist[t], "chunk") < MaxTailChunks
    /\ handle_output(IdA, t, <<97>>, NoStr, None, now, TRUE)
    /\ UNCHANGED auxVars

NextLateTail ==
  \/ Register
  \/ ApiDispatch
  \/ LateOutput
  \/ ClientCompleted
  \/ TailStart
  \/ TailPoll

SpecLateTail == Init /\ [][NextLateTail]_vars

\* ---------------------------------------------------------- utilities
\* The functions of utils.py called on their own, on every input of a
\* bounded set: frame lists of up to MaxFrames frames, and byte strings of
\* up to MaxBytes bytes, drawn from ASCII letters and punctuation, UTF-8
\* lead and continuation bytes, and bytes no UTF-8 text contains.
MaxFrames == 4
MaxBytes == 2
FrameValues == {<<>>, <<99>>, <<123>>}
ByteValues == {45, 47, 65, 95, 128, 169, 195, 255}

SeqsUpTo(S, n) == UNION {[1..k -> S] : k \in 0..n}

progVars == <<connected, clients, dbClients, tasks, taskOrder, dbTasks, buffer,
              logs, events, aggregated, fileLog, faults, out, hist, running,
              recv, pc, locks, local, tail, apiKeys, req>>

CallParse ==
  \E parts \in SeqsUpTo(FrameValues, MaxFrames) :
    /\ arg' = [fn |-> "parse_router_frames", value |-> parts]
    /\ ret' = parse_router_frames(parts)
    /\ UNCHANGED progVars

CallEncode ==
  \E b \in SeqsUpTo(ByteValues, MaxBytes) :
    /\ arg' = [fn |-> "identity_to_str", value |-> b]
    /\ ret' = identity_to_str(b)
    /\ UNCHANGED progVars

NextUtils ==
  \/ CallParse
  \/ CallEncode

SpecUtils == Init /\ [][NextUtils]_vars

\* --------------------------------------------------------- task reads
\* The HTTP API dispatches up to MaxListed tasks to a registered client
\* and reads them back, one by one and as a list, while the store may
\* fail at an insert and may become unreachable.  The wall clock advances
\* between two dispatches: a task's created_at is its rank of creation.
MaxListed == 3
ListedIds == 1..MaxListed

Reverse(q) == [i \in 1..Len(q) |-> q[Len(q) + 1 - i]]

\* the documents of set S, those created last first
\* (find().sort('created_at', -1))
RECURSIVE NewestFirst(_)
NewestFirst(S) ==
  IF S = {} THEN <<>>
  ELSE LET d == CHOOSE x \in S : \A y \in S : y.created_at <= x.created_at
       IN  <<d>> \o NewestFirst(S \ {d})

\* list(self.tasks.values()), without the reversal
tasks_oldest_first ==
  IF connected THEN NewestFirst({dbTasks[t] : t \in DOMAIN dbTasks})
  ELSE [i \in 1..Len(taskOrder) |-> tasks[taskOrder[i]]]

\* DataStore.get_all_tasks: the persisted documents when the store is
\* reachable, else list(self.tasks.values())[::-1]
get_all_tasks ==
  IF connected THEN NewestFirst({dbTasks[t] : t \in DOMAIN dbTasks})
  ELSE Reverse([i \in 1..Len(taskOrder) |-> tasks[taskOrder[i]]])

DispatchNext ==
  \E c \in ClientIds, t \in ListedIds, oki \in BOOLEAN :
    /\ ApiSend(c, t, Len(taskOrder) + 1, TRUE, oki)
    /\ UNCHANGED auxVars

ListAll ==
  /\ arg' = [fn |-> "get_all_tasks", value |-> <<>>]
  /\ ret' = get_all_tasks
  /\ UNCHANGED progVars

GetOne ==
  \E t \in ListedIds :
    /\ arg' = [fn |-> "get_task", value |-> t]
    /\ ret' = get_task(t)
    /\ UNCHANGED progVars

NextReads ==
  \/ Register
  \/ DispatchNext
  \/ LoseConnection
  \/ ListAll
  \/ GetOne

SpecReads == Init /\ [][NextReads]_vars

\* ------------------------------------------------------------ api keys
\* FirebaseAuthManager on the api_keys collection, statement by statement:
\* two HTTP requests of one authenticated user ask for the user's key,
\* each again and again, while the user's key may be revoked.  The
\* collection has unique indexes on api_key and on user_id.
Users == {"u1"}

keyOther == <<connected, clients, dbClients, tasks, taskOrder, dbTasks, buffer,
              logs, events, aggregated, fileLog, faults, out, hist, running,
              recv, pc, locks, local, tail, arg, ret>>

\* the active documents of user u
ActiveKeys(u) == {d \in apiKeys : d.user_id = u /\ d.active}

\* generate_api_key: 32 random characters, a key not seen before
UsedKeys == {d.api_key : d \in apiKeys} \cup {req[r].key : r \in Requests}
generate_api_key == CHOOSE k \in 1..(Cardinality(UsedKeys) + 1) : k \notin UsedKeys

\* validate_api_key: an active document carries the key
validate_api_key(api_key) == \E d \in apiKeys : d.api_key = api_key /\ d.active

\* create_or_get_api_key: find_one_and_update({user_id, active: True})
key_find(r, u) ==
  /\ req[r].pc \in {"idle", "done"}
  /\ IF ActiveKeys(u) # {}
     THEN \E d \in ActiveKeys(u) :
            req' = [req EXCEPT ![r] = [pc |-> "done", key |-> None,
                                       result |-> d.api_key]]
     ELSE req' = [req EXCEPT ![r] = [pc |-> "k_deactivate", key |-> None,
                                     result |-> None]]
  /\ UNCHANGED <<apiKeys, keyOther>>

\* update_many({user_id}, {active: False}); api_key = generate_api_key()
key_deactivate(r, u) ==
  /\ req[r].pc = "k_deactivate"
  /\ apiKeys' = {IF d.user_id = u THEN [d EXCEPT !.active = FALSE] ELSE d :
                   d \in apiKeys}
  /\ req' = [req EXCEPT ![r].pc = "k_insert", ![r].key = generate_api_key]
  /\ UNCHANGED keyOther

\* insert_one(doc): DuplicateKeyError when a document of the user, or of
\* the key, exists
key_insert(r, u) ==
  /\ req[r].pc = "k_insert"
  /\ IF \E d \in apiKeys : d.user_id = u \/ d.api_key = req[r].key
     THEN /\ req' = [req EXCEPT ![r].pc = "k_refind"]
          /\ UNCHANGED apiKeys
     ELSE /\ apiKeys' = apiKeys \cup {[user_id |-> u, api_key |-> req[r].key,
                                       active |-> TRUE, revoked |-> FALSE]}
          /\ req' = [req EXCEPT ![r].pc = "done", ![r].result = req[r].key]
  /\ UNCHANGED keyOther

\* except DuplicateKeyError: find_one({user_id, active: True}), its key
\* when there is one, else None
key_refind(r, u) ==
  /\ req[r].pc = "k_refind"
  /\ IF ActiveKeys(u) # {}
     THEN \E d \in ActiveKeys(u) :
            req' = [req EXCEPT ![r].pc = "done", ![r].result = d.api_key]
     ELSE req' = [req EXCEPT ![r].pc = "done", ![r].result = None]
  /\ UNCHANGED <<apiKeys, keyOther>>

KeyFind == \E r \in Requests, u \in Users : key_find(r, u)
KeyDeactivate == \E r \in Requests, u \in Users : key_deactivate(r, u)
KeyInsert == \E r \in Requests, u \in Users : key_insert(r, u)
KeyRefind == \E r \in Requests, u \in Users : key_refind(r, u)

\* revoke_api_key: update_one({user_id}, {active: False, revoked_at})
Revoke ==
  \E u \in Users :
    /\ \E d \in apiKeys : d.user_id = u
    /\ apiKeys' = {IF d.user_id = u
                   THEN [d EXCEPT !.active = FALSE, !.revoked = TRUE] ELSE d :
                     d \in apiKeys}
    /\ UNCHANGED <<req, keyOther>>

NextKeys ==
  \/ KeyFind
  \/ KeyDeactivate
  \/ KeyInsert
  \/ KeyRefind
  \/ Revoke

SpecKeys == Init /\ [][NextKeys]_vars

\* ------------------------------------------------------- any sender
\* The router accepts a frame from every connection: after one client has
\* registered and tasks were dispatched to it, task messages arrive from
\* its connection and from a connection that never registered.
SenderStarted ==
  \E i \in Identities, t \in DOMAIN tasks, now \in HubTimes :
    TaskStarted(i, t, now, TRUE) /\ UNCHANGED auxVars

SenderOutput ==
  \E i \in Identities, t \in DOMAIN tasks, c \in ChunkTexts, now \in HubTimes :
    Output(i, t, c, NoStr, None, now, TRUE) /\ UNCHANGED auxVars

SenderCompleted ==
  \E i \in Identities, t \in DOMAIN tasks, e \in {0, 1}, now \in HubTimes :
    Completed(i, t, e, None, now, TRUE, TRUE, TRUE) /\ UNCHANGED auxVars

NextSenders ==
  \/ Register
  \/ Dispatch
  \/ SenderStarted
  \/ SenderOutput
  \/ SenderCompleted

SpecSenders == Init /\ [][NextSenders]_vars

\* ------------------------------------------------------------- claims
\* the messages of kind e handled for task t, in arrival order
Handled(t, e) == SelectSeq(hist[t], LAMBDA h : h.ev = e)
\* the aggregated records of task t
Records(t) == {d \in aggregated : d.task_id = t}
\* the step handles a completed message for t / an output message for t
FinStep(t) == Len(hist'[t]) = Len(hist[t]) + 1 /\ hist'[t][Len(hist'[t])].ev = "fin"
ChunkStep(t) == Len(hist'[t]) = Len(hist[t]) + 1 /\ hist'[t][Len(hist'[t])].ev = "chunk"
\* the completed message ran _create_aggregated_output
Finalized(h) == h.ev = "fin" /\ h.res # "skipped"

\* C1: two finalize calls on the same task id with no output chunk in
\* between leave exactly one aggregated record for the task, and the
\* second call inserts nothing.
C1_FinalizeTwiceOneRecord ==
  \A t \in DOMAIN tasks :
    \A i \in 1..(Len(hist[t]) - 1) :
      Finalized(hist[t][i]) /\ Finalized(hist[t][i + 1])
        => /\ Cardinality(Records(t)) = 1
           /\ hist[t][i + 1].res # "inserted"

\* C2: at most one aggregated record per task id, and aggregation is run
\* at most once per task: a terminal transition on an already-terminal task
\* does not build and insert the record again, whatever output arrives in
\* between.
C2_AggregationAtMostOnce ==
  \A t \in DOMAIN tasks :
    /\ Cardinality(Records(t)) <= 1
    /\ Cardinality({i \in 1..Len(hist[t]) :
                      hist[t][i].ev = "fin" /\ hist[t][i].res \in {"inserted", "failed"}}) <= 1

\* C3: a task the registry shows as completed or failed has an aggregated
\* record.
C3_TerminalHasRecord ==
  \A t \in DOMAIN tasks :
    tasks[t].status \in Terminal => Records(t) # {}

\* C4: the N output messages handled for a task id are assigned the
\* sequence numbers 0, 1, ..., N-1 in call order.
C4_SequenceNumbers ==
  \A t \in DOMAIN tasks :
    \A i \in 1..Len(Handled(t, "chunk")) : Handled(t, "chunk")[i].seq = i - 1

\* the texts of the chunks that carry sequence number n, then those of the
\* higher numbers up to hi
RECURSIVE TextsFrom(_, _, _)
TextsFrom(chunks, n, hi) ==
  IF n > hi THEN <<>>
  ELSE LET at == SelectSeq(chunks, LAMBDA c : c.sequence = n)
       IN  (IF at = <<>> THEN <<>> ELSE at[1].output) \o TextsFrom(chunks, n + 1, hi)

\* C5: the record finalize inserts has combined_output equal to the texts of
\* the buffered chunks concatenated in order of sequence number (whatever
\* their timestamps), total_chunks equal to the number of chunks appended
\* to the buffer, and output_size equal to the length of combined_output.
C5_AggregatedInSequenceOrder ==
  [][\A t \in DOMAIN tasks :
       Records(t) = {} /\ Records(t)' # {}
         => /\ t \in DOMAIN buffer
            /\ \A d \in Records(t)' :
                 /\ d.combined_output =
                      TextsFrom(buffer[t].chunks, 0, buffer[t].sequence)
                 /\ d.total_chunks = Len(buffer[t].chunks)
                 /\ d.total_chunks =
                      Cardinality({i \in 1..Len(hist[t]) : hist[t][i].res = "appended"})
                 /\ d.output_size = Len(d.combined_output)]_vars

\* C5 witness: a record of two chunks whose timestamps decrease while their
\* sequence numbers increase, the texts being in sequence order
C5_Witness ==
  \E d \in aggregated :
    /\ d.total_chunks = 2
    /\ d.combined_output = <<97, 98>>
    /\ Len(logs[d.task_id]) >= 2
    /\ logs[d.task_id][1].sequence < logs[d.task_id][2].sequence
    /\ logs[d.task_id][1].timestamp > logs[d.task_id][2].timestamp

\* C6: a task that is completed or failed never shows queued or running
\* again, in the in-memory record or in the persisted one.
C6_StatusMonotonic ==
  [][/\ \A t \in DOMAIN tasks :
          tasks[t].status \in Terminal => tasks'[t].status \in Terminal
     /\ \A t \in DOMAIN dbTasks :
          dbTasks[t].status \in Terminal => dbTasks'[t].status \in Terminal]_vars

\* C7: a completed message handled for a task that is already terminal
\* leaves its status, completed_at and exit_code as they were.
C7_FirstWriteWins ==
  [][\A t \in DOMAIN tasks :
       tasks[t].status \in Terminal /\ FinStep(t)
         => /\ tasks'[t].status = tasks[t].status
            /\ tasks'[t].completed_at = tasks[t].completed_at
            /\ tasks'[t].exit_code = tasks[t].exit_code]_vars

\* C8: a finalize call that finds no buffer entry for the task still
\* leaves an aggregated record for it.
C8_FinalizeWithoutBuffer ==
  \A t \in DOMAIN tasks :
    (\E i \in 1..Len(hist[t]) : hist[t][i].ev = "fin" /\ hist[t][i].res = "nobuffer")
      => Records(t) # {}

\* the texts of a sequence of chunks or of handled output messages
Outputs(chunks) == [i \in 1..Len(chunks) |-> chunks[i].output]
Texts(h) == [i \in 1..Len(h) |-> h[i].text]

\* C9: until the task is finalized, every output message handled for it is
\* in its buffer entry: the buffered texts are the texts received, in
\* order, whether or not the store took the streaming write.
C9_ChunkKeptOnStoreFailure ==
  \A t \in DOMAIN tasks :
    Handled(t, "fin") = <<>> /\ Handled(t, "chunk") # <<>>
      => /\ t \in DOMAIN buffer
         /\ Outputs(buffer[t].chunks) = Texts(Handled(t, "chunk"))

RECURSIVE Concat(_)
Concat(ss) == IF ss = <<>> THEN <<>> ELSE Head(ss) \o Concat(Tail(ss))
\* the step handles a task_started message for t
StartedStep(t) ==
  /\ out' # out
  /\ Len(out') = 1
  /\ out'[1].kind = "task"
  /\ out'[1].task = t

\* C10: the lifecycle of a task.  The dispatch leaves it queued; a
\* task_started before any completed message leaves it running; each output
\* message before any completed message leaves the buffer holding the texts
\* received so far, in arrival order; the first completed message, when its
\* exit code is 0, leaves the task completed and an aggregated record with
\* the k texts received concatenated in arrival order and total_chunks = k.
C10_Lifecycle ==
  [][\A t \in TaskIds :
       /\ t \notin DOMAIN tasks /\ t \in DOMAIN tasks'
            => tasks'[t].status = "queued"
       /\ t \in DOMAIN tasks /\ Handled(t, "fin") = <<>> /\ StartedStep(t)
            => tasks'[t].status = "running"
       /\ t \in DOMAIN tasks /\ Handled(t, "fin") = <<>> /\ ChunkStep(t)
            => /\ t \in DOMAIN buffer'
               /\ Outputs(buffer'[t].chunks) = Texts(Handled(t, "chunk")')
       /\ t \in DOMAIN tasks /\ Handled(t, "fin") = <<>> /\ FinStep(t)
          /\ tasks'[t].exit_code = 0
            => /\ tasks'[t].status = "completed"
               /\ \E d \in Records(t)' :
                    /\ d.total_chunks = Len(Handled(t, "chunk"))
                    /\ d.combined_output = Concat(Texts(Handled(t, "chunk")))]_vars

\* ---- claims about the inbound loop (SpecInbound)
\* the frame list has a shape the loop accepts
WellFormed(parts) ==
  \/ Len(parts) = 3 /\ parts[2] = <<>>
  \/ Len(parts) = 2
SenderOf(parts) == parts[1]
PayloadOf(parts) == parts[Len(parts)]
\* the frames carry a JSON object
IsObject(parts) == WellFormed(parts) /\ json_loads(PayloadOf(parts))[2]
MsgOf(parts) == json_loads(PayloadOf(parts))[3]
\* the step is the loop handling a message of the given type
Handles(type) == recv' # <<>> /\ IsObject(recv') /\ MsgOf(recv').type = type

\* C11: a hello that lacks client_id or api_key, or whose api_key is not
\* valid, is answered with exactly one reject frame that carries a reason
\* ("Missing client_id or api_key" when a field is missing), and no state
\* changes: the client registry is as before, in memory and in the store.
C11_HelloRejected ==
  [][Handles("hello")
     /\ (MsgOf(recv').client_id = NoStr \/ MsgOf(recv').api_key # ValidKey)
       => /\ Len(out') = 1
          /\ out'[1].to = SenderOf(recv')
          /\ out'[1].type = "reject"
          /\ out'[1].reason # ""
          /\ (MsgOf(recv').client_id = NoStr \/ MsgOf(recv').api_key = 0
                => out'[1].reason = "Missing client_id or api_key")
          /\ UNCHANGED dataVars]_vars

\* C11 witness: with one client registered, a hello from another
\* connection that presents an invalid key has just been rejected
C11_Witness ==
  /\ recv # <<>> /\ IsObject(recv)
  /\ MsgOf(recv).type = "hello"
  /\ MsgOf(recv).client_id # NoStr
  /\ MsgOf(recv).api_key = 2
  /\ Len(out) = 1 /\ out[1].type = "reject" /\ out[1].reason = "Invalid API key"
  /\ Len(clients) = 1
  /\ clients[1].identity # SenderOf(recv)

\* C12: a well-formed message whose type is none of hello, task_started,
\* output, completed is answered with exactly one ack whose ack_for is
\* "unknown", and the task registry, the client registry, the output buffer
\* and the persisted records are as before.
C12_UnknownTypeAcked ==
  [][recv' # <<>> /\ IsObject(recv')
     /\ MsgOf(recv').type \notin {"hello", "task_started", "output", "completed"}
       => /\ Len(out') = 1
          /\ out'[1].to = SenderOf(recv')
          /\ out'[1].type = "ack"
          /\ out'[1].kind = "unknown"
          /\ UNCHANGED <<tasks, taskOrder, dbTasks, clients, dbClients, buffer, logs,
                         events, aggregated>>]_vars

\* C12 witness: with a client registered and a task dispatched and
\* buffered, a ping has just been acknowledged as unknown
C12_Witness ==
  /\ recv # <<>> /\ IsObject(recv)
  /\ MsgOf(recv).type = "ping"
  /\ Len(out) = 1 /\ out[1].kind = "unknown"
  /\ clients # <<>>
  /\ DOMAIN tasks # {}
  /\ DOMAIN buffer # {}

\* C13: whatever message the loop handles, the loop is still running
\* afterwards.
C13_LoopSurvives ==
  [][recv' # <<>> => running']_vars

\* the frames are malformed at frame level: an unaccepted shape, an empty
\* payload, or a payload that is not valid JSON
Malformed(parts) ==
  \/ ~WellFormed(parts)
  \/ PayloadOf(parts) = <<>>
  \/ ~json_loads(PayloadOf(parts))[1]

\* C14: a message malformed at frame level is dropped: no response frame
\* is sent, no handler runs and nothing changes in the registries, the
\* buffer or the persisted records; the loop keeps running.
C14_MalformedDropped ==
  [][recv' # <<>> /\ Malformed(recv')
       => /\ out' = <<>>
          /\ UNCHANGED dataVars
          /\ running' = running]_vars

\* C14 witness: with task 1 dispatched and buffered, frames whose
\* delimiter is not empty, carrying an output message for task 1, have
\* just been dropped
C14_Witness ==
  /\ Len(recv) = 3 /\ recv[2] # <<>>
  /\ json_loads(recv[3])[2]
  /\ json_loads(recv[3])[3].type = "output"
  /\ json_loads(recv[3])[3].task \in DOMAIN buffer
  /\ out = <<>>
  /\ running

\* C15: a task_started, output or completed message without a task id, or
\* a completed message without exit_code, changes no task record, creates
\* no buffer entry and no streaming record, and triggers no aggregation.
C15_MissingFieldDropped ==
  [][(/\ Handles("task_started") \/ Handles("output") \/ Handles("completed")
      /\ \/ MsgOf(recv').task = None
         \/ MsgOf(recv').type = "completed" /\ MsgOf(recv').exit_code = None)
       => UNCHANGED <<tasks, dbTasks, buffer, logs, aggregated>>]_vars

\* ---- claims about reconnections (SpecClients)
\* the cached client records of external identifier c
CachedAs(c) == {i \in 1..Len(clients) : clients[i].identity_str = c}

\* C16: the client registry holds at most one record per external client
\* identifier, in the cache and in the store, also after the identifier
\* registered again from another connection.
C16_OneRecordPerClientId ==
  /\ \A c \in ClientIds : Cardinality(CachedAs(c)) <= 1
  /\ \A c \in DOMAIN dbClients : dbClients[c].client_id = c

\* the step dispatches task t
DispatchStep(t) == t \notin DOMAIN tasks /\ t \in DOMAIN tasks'

\* C17: when a client identifier has registered from one connection and
\* later from another, a dispatch to it is transmitted to the connection
\* of the newest registration.
C17_NewestRegistrationWins ==
  [][\A t \in TaskIds, c \in ClientIds :
       DispatchStep(t)
         => \A i \in CachedAs(c) :
              (\A j \in CachedAs(c) \ {i} : clients[j].last_seen < clients[i].last_seen)
                => /\ Len(out') = 1
                   /\ out'[1].to = clients[i].identity]_vars

\* ---- claims about the threads (SpecThreads)
\* thread th holds one of the locks
Holding(th) == \E l \in Locks : locks[l] = th
\* the labels at which a thread executes a mutation of the output buffer
BufferSteps == {"o_seq", "o_append", "c_store", "i_buffer"}

\* C18: every mutation of the task cache, of the client cache and of the
\* output buffer is executed by a thread that holds the lock of that
\* collection, and the inbound loop and an HTTP thread are never both
\* inside a mutation of the output buffer.
C18_LockDiscipline ==
  /\ pc["loop"] \in {"c_status", "c_completed_at", "c_exit_code"}
       => locks["tasks"] = "loop"
  /\ pc["http"] = "a_put" => locks["tasks"] = "http"
  /\ pc["loop"] = "h_body" => locks["clients"] = "loop"
  /\ \A th \in Threads : pc[th] \in BufferSteps => Holding(th)
  /\ ~(pc["loop"] \in BufferSteps /\ pc["http"] \in BufferSteps)

\* the record r is one a task has between two transitions
Consistent(r) ==
  /\ r.status \in Terminal <=> r.completed_at # None
  /\ r.status = "completed" <=> r.exit_code = 0
  /\ r.status = "failed" <=> r.exit_code = 1

\* C19: the record an HTTP reader returns, read while the inbound loop
\* runs, is a whole one: the state before a transition or the state after
\* it, never a terminal status with completed_at or exit_code of the state
\* before; on the store path and on the cache path.
C19_NoTornRead ==
  pc["http"] = "r_respond"
    => Consistent([status |-> local["http"].status,
                   completed_at |-> local["http"].completed_at,
                   exit_code |-> local["http"].exit_code])

\* ---- claims about the live tail (SpecTail)
\* the completion markers among the events the tail has yielded
Markers == {i \in 1..Len(tail.events) : tail.events[i].type = "task_completed"}

\* C20: once the tailed task is completed or failed, the tail eventually
\* stops polling, having yielded exactly one completion marker, as its
\* last event.
C20_TailTerminates ==
  (/\ tail.state = "open"
   /\ tail.task \in DOMAIN tasks
   /\ tasks[tail.task].status \in Terminal)
    ~> (/\ tail.state = "done"
        /\ Markers = {Len(tail.events)})

\* the chunk of streaming document d is among the events the tail yielded
Yielded(evs, d) ==
  \E j \in 1..Len(evs) :
    /\ evs[j].type = "chunk"
    /\ evs[j].sequence = d.sequence
    /\ evs[j].output = d.output

\* C21: when the tail yields the completion marker, with the store
\* reachable, every chunk recorded for the task so far (the one of
\* sequence 0 included) is among the events it yielded before.
C21_TailYieldsEveryChunk ==
  [][(connected /\ tail.state = "open" /\ tail'.state = "done")
       => \A i \in 1..Len(logs[tail.task]) :
            Yielded(tail'.events, logs[tail.task][i])]_vars

\* ---- claims about the utilities (SpecUtils)
\* C22: parse_router_frames returns (identity, payload) for the shapes
\* [identity, empty, payload] and [identity, payload], and (none, none)
\* for every other frame list: of 0, 1, 4 or more frames, or of 3 frames
\* with a second frame that is not empty.
C22_ParseShapes ==
  arg.fn = "parse_router_frames" =>
    LET parts == arg.value
        n == Len(parts)
    IN  /\ (n = 3 /\ parts[2] = <<>>) => ret = <<TRUE, parts[1], parts[3]>>
        /\ n = 2 => ret = <<TRUE, parts[1], parts[2]>>
        /\ (n = 3 /\ parts[2] # <<>>) => ret = <<FALSE, <<>>, <<>>>>
        /\ n \notin {2, 3} => ret = <<FALSE, <<>>, <<>>>>

C22_Witness ==
  /\ arg.fn = "parse_router_frames"
  /\ Len(arg.value) = MaxFrames
  /\ ret = <<FALSE, <<>>, <<>>>>

\* the characters [A-Za-z0-9_-]
SafeAscii ==
  (48..57) \cup (65..90) \cup (97..122) \cup {45, 95}

\* C23: identity_to_str returns, for every byte string, a string of at
\* most 120 characters, all of them in [A-Za-z0-9_-].
C23_EncodeSafe ==
  arg.fn = "identity_to_str" =>
    /\ Len(ret) <= MaxIdentityStrLen
    /\ \A i \in 1..Len(ret) : ret[i] \in SafeAscii

\* ---- claims about the responses (SpecInbound)
\* C24: every message handed to a handler is answered with exactly one
\* frame, addressed to the identity it came from; the frame acknowledges
\* the registration for an accepted hello, the task id for task_started,
\* the chunk's message id for output, and "completed" with the task id for
\* completed.
C24_OneCorrelatedResponse ==
  [][(recv' # <<>> /\ IsObject(recv'))
       => LET msg == MsgOf(recv')
              accepted == msg.client_id # NoStr /\ msg.api_key = ValidKey
          IN  /\ Len(out') = 1
              /\ out'[1].to = SenderOf(recv')
              /\ (msg.type = "hello" /\ accepted)
                   => out'[1].type = "ack" /\ out'[1].kind = "hello"
              /\ msg.type = "task_started"
                   => /\ out'[1].type = "ack" /\ out'[1].kind = "task"
                      /\ out'[1].task = msg.task
              /\ msg.type = "output"
                   => /\ out'[1].type = "ack" /\ out'[1].kind = "msg"
                      /\ out'[1].msg_id = GenMsgId
              /\ msg.type = "completed"
                   => /\ out'[1].type = "ack" /\ out'[1].kind = "completed"
                      /\ out'[1].task = msg.task]_vars

\* ---- claims about dispatch (SpecThreads)
\* the step creates the record of task t
Creates(t) == t \notin DOMAIN tasks /\ t \in DOMAIN tasks'
\* the step transmits the exec command of a dispatch
Transmits == pc["http"] = "s_send" /\ pc'["http"] = "idle"
\* the exec frames among the frames sent last
ExecFrames(o) == {i \in 1..Len(o) : o[i].type = "exec"}

\* C25: a dispatch creates one task record, with an id no task has yet
\* and status queued, then transmits one exec command that carries that
\* id to the target identity, and returns the id; an exec command is never
\* transmitted for a task the registry does not contain.
C25_CreateThenTransmit ==
  [][/\ \A t \in TaskIds :
          Creates(t)
            => /\ DOMAIN tasks' = DOMAIN tasks \cup {t}
               /\ \A u \in DOMAIN tasks : tasks'[u] = tasks[u]
               /\ tasks'[t].id = t /\ tasks'[t].status = "queued"
               /\ \A i \in ExecFrames(out') : out'[i].task # t
     /\ Transmits
          => /\ Len(out') = 1
             /\ out'[1].type = "exec"
             /\ out'[1].to = local["http"].identity
             /\ out'[1].task = local["http"].task
             /\ out'[1].task \in DOMAIN tasks
             /\ ret' = out'[1].task
     /\ \A i \in ExecFrames(out') : out'[i].task \in DOMAIN tasks']_vars

\* C25 witness: a dispatch has returned; its exec command is the frame
\* sent last and the registry holds the task
C25_Witness ==
  /\ pc["http"] = "idle"
  /\ Len(out) = 1 /\ out[1].type = "exec"
  /\ out[1].task \in DOMAIN tasks
  /\ ret = out[1].task

\* ---- claims about the unreachable store (Spec)
\* the frame sent last acknowledges a message of the given kind
Acked(o, kind) == Len(o) = 1 /\ o[1].type = "ack" /\ o[1].kind = kind

\* C26: while the store is unreachable every registry operation returns
\* normally: no store call raises, a dispatch still creates the cached
\* record, a transition still updates it, get and resolve answer from the
\* cache (or with nothing), and the persisted collections stay as they
\* were.
C26_FallbackWhenUnreachable ==
  [][~connected
       => /\ faults' = faults
          /\ Len(out') <= 1
          /\ UNCHANGED <<dbClients, dbTasks, logs, events, aggregated>>
          /\ \A t \in TaskIds :
               /\ DispatchStep(t)
                    => /\ tasks'[t].status = "queued"
                       /\ Len(out') = 1 /\ out'[1].type = "exec" /\ out'[1].task = t
               /\ (t \in DOMAIN tasks /\ Acked(out', "task") /\ out'[1].task = t)
                    => tasks'[t].status = "running"
               /\ (t \in DOMAIN tasks /\ Acked(out', "completed") /\ out'[1].task = t)
                    => /\ tasks'[t].status \in Terminal
                       /\ tasks'[t].completed_at # None
                       /\ tasks'[t].exit_code # None
               /\ get_task(t) = IF t \in DOMAIN tasks THEN {tasks[t]} ELSE {}
          /\ \A c \in ClientIds, now \in HubTimes :
               LET r == get_client_by_id(c, now, TRUE)
               IN  /\ r[2] = clients
                   /\ r[1] = IF CachedAs(c) = {} THEN NoStr
                             ELSE clients[FirstWithId(c)].identity]_vars

\* C26 witness: with the store unreachable, a completed message has been
\* handled for a task that was dispatched while it was unreachable; the
\* cached record is terminal and the store holds no document of the task
C26_Witness ==
  /\ ~connected
  /\ Acked(out, "completed")
  /\ out[1].task \in DOMAIN tasks
  /\ out[1].task \notin DOMAIN dbTasks
  /\ tasks[out[1].task].status \in Terminal

\* ---- claims about the completed handler (Spec)
\* C27: handling a completed message sets the task's status to completed
\* if and only if the message's exit code is 0, and to failed otherwise;
\* completed_at is the message's timestamp when it carries one, else the
\* time of handling; the exit code is stored with the record.
C27_CompletedTransition ==
  [][\A i \in Senders, t \in TaskIds, e \in {0, 1}, ts \in Times \cup {None},
        now \in HubTimes, oku \in BOOLEAN, oka \in BOOLEAN :
       (t \in DOMAIN tasks /\ Completed(i, t, e, ts, now, oku, oka, TRUE))
         => /\ tasks'[t].status = "completed" <=> e = 0
            /\ tasks'[t].status = "failed" <=> e # 0
            /\ tasks'[t].completed_at = IF ts # None THEN ts ELSE now
            /\ tasks'[t].exit_code = e]_vars

\* C27 witness: a task was reported with exit code 1 and a timestamp of
\* its own, later than the hub's clock
C27_Witness ==
  \E t \in DOMAIN tasks :
    /\ Acked(out, "completed") /\ out[1].task = t
    /\ tasks[t].status = "failed"
    /\ tasks[t].exit_code = 1
    /\ tasks[t].completed_at = MaxTime

\* ---- claims about registrations (SpecClients)
\* the step is the loop handling a hello that is accepted
AcceptsHello ==
  /\ Handles("hello")
  /\ MsgOf(recv').client_id # NoStr
  /\ MsgOf(recv').api_key = ValidKey

\* C28: the registration of a client reports is_new exactly when no client
\* of that client id was registered before, whatever connection the hello
\* comes from.
C28_IsNewByClientId ==
  [][AcceptsHello
       => (is_new(SenderOf(recv'))
             <=> /\ CachedAs(MsgOf(recv').client_id) = {}
                 /\ MsgOf(recv').client_id \notin DOMAIN dbClients)]_vars

\* C29: a hello of a client that is registered already sets last_seen, and
\* sets the hostname only when it carries one: a hello without hostname
\* leaves the hostname as it was, in the cached record and in the persisted
\* document.
C29_HostnameKept ==
  [][\A i \in Identities, c \in ClientIds, h \in Hostnames, now \in Clock :
       Hello(i, c, TRUE, TRUE, h, now, TRUE, TRUE)
         => /\ IndexOf(i) # 0
                 => LET k == IndexOf(i)
                    IN  /\ clients'[k].last_seen = now
                        /\ clients'[k].hostname =
                             IF h # NoStr THEN h ELSE clients[k].hostname
            /\ (connected /\ c \in DOMAIN dbClients)
                 => /\ dbClients'[c].last_seen = now
                    /\ dbClients'[c].hostname =
                         IF h # NoStr THEN h ELSE dbClients[c].hostname]_vars

\* ---- claims about task reads (SpecReads)
\* the list holds its tasks newest first
Descending(q) == \A i, j \in 1..Len(q) : i < j => q[i].created_at > q[j].created_at

C31_CreateInitializesBuffer ==
  [][\A t \in TaskIds :
       DispatchStep(t)
         => /\ t \in DOMAIN buffer'
            /\ buffer'[t].chunks = <<>>
            /\ buffer'[t].sequence = 0
            /\ buffer'[t].client_id = tasks'[t].target]_vars

\* C32: after a completed message for task t has been handled the output
\* buffer holds no entry for t, also when the aggregated record could not
\* be written or the store is unreachable.
C32_TerminalDiscardsBuffer ==
  [][\A t \in TaskIds : FinStep(t) => t \notin DOMAIN buffer']_vars

\* ---- claims about the writers of the buffer (SpecThreads)
\* the step is one of the given thread
StepOf(th) == pc'[th] # pc[th]

\* C33: only the inbound loop writes the output buffer: no step of an HTTP
\* thread creates, changes or deletes a buffer entry.
C33_LoopOnlyWritesBuffer ==
  [][buffer' # buffer => StepOf("loop") /\ ~StepOf("http")]_vars

\* ---- claims about API keys (SpecKeys)
\* C34: while no key of the user has been revoked, every request for the
\* user's key returns a key, all requests return the same one, and the
\* user has at most one active key.
C34_KeyRaceBenign ==
  /\ \A u \in Users : Cardinality(ActiveKeys(u)) <= 1
  /\ (\A d \in apiKeys : ~d.revoked)
       => \A r, q \in Requests :
            req[r].pc = "done" /\ req[q].pc = "done"
              => req[r].result # None /\ req[r].result = req[q].result

\* C40: a request for the user's key that no other request runs alongside
\* returns a key that validate_api_key accepts, also after the user's key
\* was revoked.
C40_KeyAlwaysObtained ==
  [][\A r \in Requests :
       (/\ req[r].pc # "done" /\ req'[r].pc = "done"
        /\ \A q \in Requests \ {r} : req[q].pc = "idle")
         => /\ req'[r].result # None
            /\ \E d \in apiKeys' :
                 d.api_key = req'[r].result /\ d.active]_vars

\* ---- claims about the output buffer
\* C35: in every buffer entry the buffered chunks carry strictly increasing
\* sequence numbers in list order, each smaller than the entry's counter.
C35_BufferSequences ==
  \A t \in DOMAIN buffer :
    LET c == buffer[t].chunks
    IN  /\ \A i \in 1..Len(c) : c[i].sequence < buffer[t].sequence
        /\ \A i, j \in 1..Len(c) : i < j => c[i].sequence < c[j].sequence

C35_Witness ==
  \E t \in DOMAIN buffer :
    /\ Len(buffer[t].chunks) = 2
    /\ buffer[t].sequence > 1 + buffer[t].chunks[1].sequence

\* ---- claims about the locks (SpecLocks)
\* the lock a thread is blocked on, "" when it is not blocked
WaitsFor(th) ==
  IF th = "loop" /\ pc[th] = "c_lock" THEN "tasks"
  ELSE IF th = "http" /\ pc[th] = "a_lock" THEN "tasks"
  ELSE ""

RecordedAs(t, m) ==
  \/ /\ t \in DOMAIN buffer'
     /\ Len(buffer'[t].chunks) > 0
     /\ buffer'[t].chunks[Len(buffer'[t].chunks)].msg_id = m
     /\ (t \in DOMAIN buffer => buffer'[t].chunks # buffer[t].chunks)
  \/ /\ Len(logs'[t]) = Len(logs[t]) + 1
     /\ logs'[t][Len(logs'[t])].msg_id = m

\* C37: when the handler of an output message sends the ack for the
\* chunk's message id, the chunk has been recorded in the task's buffer or
\* in the persisted stream.
C37_AckAfterRecord ==
  [][\A t \in TaskKeys :
       ChunkStep(t) /\ Acked(out', "msg")
         => RecordedAs(t, out'[1].msg_id)]_vars

\* ---- claims about the sender of a task message (SpecSenders)
\* the step handled a task message for task t that came from identity i:
\* the handler's ack goes to the sender
FromSender(i, t) ==
  /\ Len(out') = 1 /\ out'[1].type = "ack"
  /\ out'[1].kind \in {"task", "msg", "completed"}
  /\ out'[1].to = i /\ out'[1].task = t

\* C38: a task_started, output or completed message from an identity that
\* is not the task's target leaves the task's record, its buffer entry and
\* the aggregated outputs as they were.
C38_OnlyTargetAffectsTask ==
  [][\A i \in Identities, t \in TaskIds :
       (/\ t \in DOMAIN tasks
        /\ FromSender(i, t)
        /\ identity_to_str(i) # tasks[t].target)
         => /\ tasks'[t] = tasks[t]
            /\ (t \in DOMAIN buffer
                  => t \in DOMAIN buffer' /\ buffer'[t] = buffer[t])
            /\ aggregated' = aggregated]_vars

\* ---- claims about repeated chunks in the live tail (SpecTail)
\* C39: the chunk events the tail has yielded carry strictly increasing
\* sequence numbers, and no chunk event follows the completion marker.
C39_TailNoRepeat ==
  \A i, j \in 1..Len(tail.events) :
    (i < j /\ tail.events[j].type = "chunk")
      => /\ tail.events[i].type = "chunk"
         /\ tail.events[i].sequence < tail.events[j].sequence

====
